---- MODULE Spec2Model ----
(***************************************************************************)
(* State-machine model of the xrs-os kernel: the naive_fs id allocator and *)
(* directory records, the FIFO executor, the page mapper with its bump     *)
(* frame allocator, and POSIX-style signal delivery.  Each subsystem has   *)
(* its own specification; the variables of the other subsystems stay at    *)
(* their initial values.                                                   *)
(***************************************************************************)
EXTENDS Integers, Sequences, FiniteSets, TLC

VARIABLES
    allocator,   \* naive_fs Allocator {bitmap, next_id, free, capacity}
    alloc_ret,   \* value returned by the last Allocator call (0 = None / false)
    held,        \* ghost: bag of the ids handed out by alloc and not yet deallocated
    dir,         \* a directory inode: {inode_id, size, recs: offset -> RawDirEntry}
    dir_ret,     \* value returned by the last directory call
    last_op,     \* ghost: name -> inode id of the last append(name, id), 0 after remove
    tasks,       \* FIFOExecutor.tasks: id -> [gen, waker]; gen names the future spawned
    task_queue,  \* FIFOExecutor.task_queue: bounded FIFO of ids
    cur,         \* the task run_ready_tasks is polling (holds the tasks lock), or NoTask
    exec_state,  \* "running", "panic" (kernel panic) or "deadlock" (tasks lock re-taken)
    exec_ret,    \* value returned by the last spawn
    next_gen,    \* ghost: number of futures spawned so far
    ready_gens,  \* ghost: the futures whose poll has returned Ready
    repolled,    \* ghost: a future was polled after it had returned Ready
    wake_pending, \* ghost: ids woken while in the map and not polled since
    yielded,     \* ghost: the last Timer yield {id, ahead, overtook}; ahead: the tasks that
                 \* were queued at the yield and not polled since
    mem,         \* physical memory: frame number -> word index -> word
    frame_alloc, \* BumpAllocator {next, start, end, allocated}
    spaces,      \* live PageMappers: asid -> address of the root table
    mem_state,   \* "ok" or "panic"
    mem_ret,     \* result of the last mapper operation
    overflow_checks, \* build setting: arithmetic overflow panics (TRUE) or wraps
    cow,         \* ghost: the last borrow_memory, its pages before the fork and since
                 \* (cw, pw: the words the child and the parent stored, dirty: the
                 \* parent's side changed, remapped: the page was mapped or unmapped)
    rehanded,    \* ghost: frames the last operation got from alloc while a live PTE held them
    mem_steps,   \* ghost: number of mapper operations so far
    proc,        \* the process: {id, threads: the tids of its threads map}
    proc_signal, \* process::Signal {actions, shared_pending, blocked, current_target, flags}
    threads,     \* the threads whose proc() is the process: tid -> {flags, sig_pending, state, sig_ctx}
    wakers,      \* SIGNAL.wakers: the tids with a registered waker (signal-stopped threads)
    sig_woken,   \* tids whose executor waker was invoked and that were not polled since
    sig_state,   \* "ok", "panic" (kernel panic) or "hang" (a loop that never ends)
    sig_ret,     \* result of the last signal operation
    sig_hist,    \* ghost: {stop_due, ran_user, steps}
    blk_device,  \* naive_fs BlkDevice {read_only, disk: the RamDisk's data}, or not yet made
    md,          \* a MaybeDirty<T> {inner, is_dirty, addr}
    md_fut,      \* the state of the live MaybeDirtySyncFut, or "none"
    md_state,    \* "ok" or "panic"
    md_ret,      \* result of the last MaybeDirty operation
    md_hist,     \* ghost: {derefd, marked}: what made the value dirty since its last sync
    bitmap,      \* a crates/bitmap Bitmap: its u64 words
    bm_bits,     \* ghost: the offsets whose last written value is 1
    bm_ret,      \* result of the last Bitmap call
    inode,       \* an Inode: its RawInode {size, links_count, direct_blks, indirect_blk} and inode_id
    blk_id_allocator, \* SuperBlk.blk_id_allocator
    inode_id_allocator, \* SuperBlk.inode_id_allocator
    ino_file,    \* ghost: file position -> the byte last written there by write_at, 0 if none
    ino_state,   \* "ok" or "panic"
    ino_ret,     \* result of the last inode operation
    ino_steps,   \* ghost: number of inode operations so far
    thr,         \* the threads: tid -> {context, state, fut: the state of its ThreadFuture, proc}
    thr_cur,     \* the tid whose ThreadFuture run_ready_tasks is polling (it holds the tasks lock), or 0
    thr_queue,   \* the task_queue of the executor
    thr_tids,    \* the THREAD_ID_ALLOCATOR {last_id, free, tidmap}
    thr_kernel,  \* "ok", "panic" (kernel panic) or "deadlock" (the hart spins on a lock it holds)
    thr_ret,     \* result of the last step of a poll
    thr_hist,    \* ghost: {steps, user_after_exit, exited}
    sl_kind,     \* the sleep lock built: "none", "Mutex" or "RwLock"
    sl_smp,      \* whether the tasks are polled on several harts
    sl_lock,     \* the inner lock {writer: its holder or 0, readers}
    sl_wakers,   \* the wakers queue: the task of each waker
    sl_task,     \* task -> {st, mode, notified}
    sl_run,      \* the task in the middle of a poll or a drop, or 0
    seg_kernel,  \* Memory.kernel_segments: the address range {start, end} of each
    seg_user,    \* Memory.user_segments
    seg_pages,   \* the pages the page mapper of the Memory maps
    seg_ret,     \* result of the last Memory operation
    cpu_st,      \* the Cpu of this hart {noff, intena}
    sie,         \* sstatus.SIE of this hart: whether interrupts are enabled
    irq_held,    \* the MutexIrq locks this hart holds
    cpu_ret,     \* the last operation on this hart
    cpu_hist,    \* ghost: {pre: SIE before the outermost push_off, deepest: the depth reached since}
    dsk_blks,    \* the bytes of the block device under the Disk
    dsk_fut,     \* the ReadAtFut of the read_at in progress
    dsk_ret,     \* what the last poll of the future returned
    dsk_state,   \* "ok" or "panic"
    bump,        \* a BumpAllocator used through the Allocator trait
    bump_live,   \* the frames handed out and not deallocated
    bump_ret,    \* the last call on bump and what it returned
    dsk_wfut,    \* the WriteAtFut of the write_at in progress
    dsk_writes,  \* number of write_at calls made
    fd_tbl,      \* OpenFileInner {max_fd, next_fd, files: fd -> whether a descriptor is open}
    fd_ret       \* result of the last call on the descriptor table

allocVars == <<allocator, alloc_ret, held>>

dirVars == <<dir, dir_ret, last_op>>

execVars == <<tasks, task_queue, cur, exec_state, exec_ret, next_gen, ready_gens,
              repolled, wake_pending, yielded>>

memVars == <<mem, frame_alloc, spaces, mem_state, mem_ret, overflow_checks, cow,
             rehanded, mem_steps>>

sigVars == <<proc, proc_signal, threads, wakers, sig_woken, sig_state, sig_ret, sig_hist>>

devVars == <<blk_device>>

mdVars == <<md, md_fut, md_state, md_ret, md_hist>>

bmVars == <<bitmap, bm_bits, bm_ret>>

inoVars == <<inode, blk_id_allocator, inode_id_allocator, ino_file, ino_state, ino_ret, ino_steps>>

thrVars == <<thr, thr_cur, thr_queue, thr_tids, thr_kernel, thr_ret, thr_hist>>

slVars == <<sl_kind, sl_smp, sl_lock, sl_wakers, sl_task, sl_run>>

segVars == <<seg_kernel, seg_user, seg_pages, seg_ret>>

cpuVars == <<cpu_st, sie, irq_held, cpu_ret, cpu_hist>>

dskVars == <<dsk_blks, dsk_fut, dsk_ret, dsk_state>>

bumpVars == <<bump, bump_live, bump_ret>>

wrVars == <<dsk_wfut, dsk_writes>>

fdVars == <<fd_tbl, fd_ret>>

vars == <<allocVars, dirVars, execVars, memVars, sigVars, devVars, mdVars, bmVars, inoVars, thrVars, slVars, segVars, cpuVars, dskVars, bumpVars, wrVars, fdVars>>

\* what the operations of one subsystem leave alone
exceptAlloc == <<dirVars, execVars, memVars, sigVars, mdVars, bmVars, devVars, inoVars, thrVars, slVars, segVars, cpuVars, dskVars, bumpVars, wrVars, fdVars>>

exceptDir == <<allocVars, execVars, memVars, sigVars, mdVars, bmVars, devVars, inoVars, thrVars, slVars, segVars, cpuVars, dskVars, bumpVars, wrVars, fdVars>>

exceptExec == <<allocVars, dirVars, memVars, sigVars, mdVars, bmVars, devVars, inoVars, thrVars, slVars, segVars, cpuVars, dskVars, bumpVars, wrVars, fdVars>>

exceptMem == <<allocVars, dirVars, execVars, sigVars, mdVars, bmVars, devVars, inoVars, thrVars, slVars, segVars, cpuVars, dskVars, bumpVars, wrVars, fdVars>>

exceptSig == <<allocVars, dirVars, execVars, memVars, mdVars, bmVars, devVars, inoVars, thrVars, slVars, segVars, cpuVars, dskVars, bumpVars, wrVars, fdVars>>

exceptMd == <<allocVars, dirVars, execVars, memVars, sigVars, bmVars, inoVars, thrVars, slVars, segVars, cpuVars, dskVars, bumpVars, wrVars, fdVars>>

exceptBm == <<allocVars, dirVars, execVars, memVars, sigVars, mdVars, devVars, inoVars, thrVars, slVars, segVars, cpuVars, dskVars, bumpVars, wrVars, fdVars>>

exceptIno == <<allocVars, dirVars, execVars, memVars, sigVars, mdVars, bmVars, thrVars, slVars, segVars, cpuVars, dskVars, bumpVars, wrVars, fdVars>>

exceptThr == <<allocVars, dirVars, execVars, memVars, sigVars, devVars, mdVars, bmVars, inoVars, slVars, segVars, cpuVars, dskVars, bumpVars, wrVars, fdVars>>

exceptSl == <<allocVars, dirVars, execVars, memVars, sigVars, devVars, mdVars, bmVars, inoVars, thrVars, segVars, cpuVars, dskVars, bumpVars, wrVars, fdVars>>

exceptSeg == <<allocVars, dirVars, execVars, memVars, sigVars, devVars, mdVars, bmVars, inoVars, thrVars, slVars, cpuVars, dskVars, bumpVars, wrVars, fdVars>>

exceptCpu == <<allocVars, dirVars, execVars, memVars, sigVars, devVars, mdVars, bmVars, inoVars, thrVars, slVars, segVars, dskVars, bumpVars, wrVars, fdVars>>

exceptDsk == <<allocVars, dirVars, execVars, memVars, sigVars, devVars, mdVars, bmVars, inoVars, thrVars, slVars, segVars, cpuVars, bumpVars, wrVars, fdVars>>

exceptBump == <<allocVars, dirVars, execVars, memVars, sigVars, devVars, mdVars, bmVars, inoVars, thrVars, slVars, segVars, cpuVars, dskVars, wrVars, fdVars>>

exceptWr == <<allocVars, dirVars, execVars, memVars, sigVars, devVars, mdVars, bmVars, inoVars, thrVars, slVars, segVars, cpuVars, dskVars, bumpVars, fdVars>>

Min(a, b) == IF a < b THEN a ELSE b

Max(a, b) == IF a > b THEN a ELSE b

(***************************************************************************)
(* crates/bitmap: a boxed slice of u64 words.  A word is modelled as the   *)
(* set of its set columns, column 0 being the most significant bit.        *)
(***************************************************************************)
U64_BITS == 64

Cols == 0 .. (U64_BITS - 1)

div_round_up(n, d) == (n + (d - 1)) \div d

BitmapNew(nbits) == [i \in 1 .. div_round_up(nbits, U64_BITS) |-> {}]

\* a mask counted from the least significant bit
bit_mask_Low(offset) == (U64_BITS - 1) - (offset % U64_BITS)

\* bit_mask(offset) selects column offset & 63
bit_mask(offset) == offset % U64_BITS

BitmapTest(bm, offset) == bit_mask(offset) \in bm[(offset \div U64_BITS) + 1]

\* the bitmap after test_and_set(offset, val); the returned old bit is BitmapTest
TestAndSet(bm, offset, val) ==
    LET idx == (offset \div U64_BITS) + 1
        row == bm[idx]
    IN  [bm EXCEPT ![idx] = IF val THEN row \cup {bit_mask(offset)}
                                   ELSE row \ {bit_mask(offset)}]

\* u64::leading_zeros in place of leading_ones: the first set column
leading_zeros(num) ==
    IF num = {} THEN U64_BITS
    ELSE CHOOSE c \in Cols : c \in num /\ \A d \in 0 .. (c - 1) : d \notin num

\* u64::leading_ones: the first clear column, 64 when the word is all ones
leading_ones(num) ==
    IF num = Cols THEN U64_BITS
    ELSE CHOOSE c \in Cols : c \notin num /\ \A d \in 0 .. (c - 1) : d \in num

NoneIdx == -1

\* find_next_zero(offset, end); end = NoneIdx stands for None, result NoneIdx for None
find_next_zero(bm, offset, end) ==
    LET col == offset % U64_BITS
        row == offset \div U64_BITS
        inWord ==
            IF col # 0
            THEN LET num == bm[row + 1] \cup (0 .. (col - 1))
                 IN  IF num # Cols THEN row * U64_BITS + leading_ones(num) ELSE NoneIdx
            ELSE NoneIdx
        rest == {i \in div_round_up(offset, U64_BITS) .. (Len(bm) - 1) : bm[i + 1] # Cols}
        scan ==
            IF rest = {} THEN NoneIdx
            ELSE LET i == CHOOSE j \in rest : \A k \in rest : j <= k
                 IN  i * U64_BITS + leading_ones(bm[i + 1])
        next_zero == IF inWord # NoneIdx THEN inWord ELSE scan
    IN  IF next_zero # NoneIdx /\ end # NoneIdx /\ next_zero >= end THEN NoneIdx
        ELSE next_zero

(***************************************************************************)
(* crates/naive_fs/src/allocator.rs                                        *)
(***************************************************************************)
Capacity == 4

\* Allocator::new over Bitmap::new(capacity), as SuperBlk::create_blank builds it
AllocatorNew(capacity) ==
    [bitmap |-> BitmapNew(capacity), next_id |-> 0, free |-> capacity,
     capacity |-> capacity]

\* Allocator::alloc: the allocator afterwards and the returned id (0 = None)
AllocatorAlloc(a) ==
    IF a.free = 0 THEN [a |-> a, ret |-> 0]
    ELSE
      LET id0 == IF a.next_id >= a.capacity THEN 0 ELSE a.next_id
          was == BitmapTest(a.bitmap, id0)
          bm1 == TestAndSet(a.bitmap, id0, TRUE)
          nz1 == find_next_zero(bm1, id0, NoneIdx)
          nz  == IF nz1 # NoneIdx THEN nz1 ELSE find_next_zero(bm1, 0, NoneIdx)
      IN  IF ~was
          THEN [a |-> [a EXCEPT !.bitmap = bm1, !.next_id = id0 + 1, !.free = @ - 1],
                ret |-> id0 + 1]
          ELSE IF nz = NoneIdx
          THEN [a |-> [a EXCEPT !.bitmap = bm1], ret |-> 0]
          ELSE [a |-> [a EXCEPT !.bitmap = TestAndSet(bm1, nz, TRUE),
                                !.next_id = nz + 1, !.free = @ - 1],
                ret |-> nz + 1]

\* Allocator::dealloc: the allocator afterwards and the returned old bit
AllocatorDealloc(a, id) ==
    IF id = 0 THEN [a |-> a, ret |-> FALSE]
    ELSE
      LET i   == id - 1
          old == BitmapTest(a.bitmap, i)
          bm1 == TestAndSet(a.bitmap, i, FALSE)
      IN  IF old
          THEN [a |-> [a EXCEPT !.bitmap = bm1, !.free = @ + 1,
                                !.next_id = IF @ = i + 1 THEN @ - 1 ELSE @],
                ret |-> TRUE]
          ELSE [a |-> [a EXCEPT !.bitmap = bm1], ret |-> FALSE]

\* ids a caller may pass to dealloc: every id of the bitmap's words
DeallocIds == 0 .. (Len(BitmapNew(Capacity)) * U64_BITS)

\* number of outstanding allocs of id
HeldCount(id) == IF id \in DOMAIN held THEN held[id] ELSE 0

HeldAdd(id) == [i \in (DOMAIN held) \cup {id} |-> HeldCount(i) + (IF i = id THEN 1 ELSE 0)]

HeldRemove(id) ==
    [i \in {j \in DOMAIN held : j # id \/ held[j] > 1} |-> held[i] - (IF i = id THEN 1 ELSE 0)]

AllocIdle ==
    /\ allocator = AllocatorNew(Capacity)
    /\ alloc_ret = 0
    /\ held = <<>>

AllocStep ==
    LET r == AllocatorAlloc(allocator)
    IN  /\ allocator' = r.a
        /\ alloc_ret' = r.ret
        /\ held' = IF r.ret # 0 THEN HeldAdd(r.ret) ELSE held
        /\ UNCHANGED exceptAlloc

DeallocStep(id) ==
    LET r == AllocatorDealloc(allocator, id)
    IN  /\ allocator' = r.a
        /\ alloc_ret' = 0
        /\ held' = HeldRemove(id)
        /\ UNCHANGED exceptAlloc

NextAlloc ==
    \/ AllocStep
    \/ \E id \in DeallocIds : DeallocStep(id)

\* C8: alloc never returns an id that an earlier alloc returned and that has
\* not been deallocated since: no id is ever held by two outstanding allocs.
C8_AllocSingleUse == \A id \in DOMAIN held : held[id] <= 1

\* the ids of 1 .. capacity that are not allocated
UnallocatedIds(a) == {id \in 1 .. a.capacity : ~BitmapTest(a.bitmap, id - 1)}

\* C33: after any sequence of alloc and dealloc calls, alloc returns an id
\* in 1 .. capacity whenever one of these ids is unallocated, and None only
\* when all of them are allocated.
C33_AllocFindsFreeId ==
    [][AllocStep =>
          IF UnallocatedIds(allocator) # {} THEN alloc_ret' \in 1 .. Capacity
          ELSE alloc_ret' = 0]_vars

\* an id is handed out a second time after its dealloc, while others are held
C8_Witness ==
    /\ alloc_ret # 0
    /\ HeldCount(alloc_ret) = 1
    /\ allocator.free = 0
    /\ allocator.next_id < allocator.capacity

(***************************************************************************)
(* crates/naive_fs/src/dir.rs: directory records in an inode's byte range. *)
(* Every record is read and written whole, at an offset that is a multiple *)
(* of the record size, so the file is kept as offset -> record; a range    *)
(* inside the file that was never written reads as zero bytes.             *)
(***************************************************************************)
RAW_DIR_ENTRY_SIZE == 261

MaxDirRecs == 7

EntryNames == {"a", "b", "c"}

InodeIds == {10, 11}

ParentIds == {7}

NoEntry == [inode_id |-> 0, rec_len |-> 0, file_type |-> 0, name |-> ""]

\* RawDirEntry::with_rec_len
with_rec_len(inode_id, name, file_type, rec_len) ==
    [inode_id |-> inode_id, rec_len |-> rec_len, file_type |-> file_type, name |-> name]

\* RawDirEntry::new: rec_len = size_of::<RawDirEntry>()
RawDirEntryNew(inode_id, name, file_type) ==
    with_rec_len(inode_id, name, file_type, RAW_DIR_ENTRY_SIZE)

\* Inode::read::<RawDirEntry>(offset): None (NoEntry) on a short read
InodeRead(d, offset) ==
    IF offset >= d.size \/ d.size - offset < RAW_DIR_ENTRY_SIZE THEN NoEntry
    ELSE IF offset \in DOMAIN d.recs THEN d.recs[offset]
    ELSE NoEntry

\* Inode::write(offset, val): store the record, size = max(size, offset + len)
InodeWrite(d, offset, val) ==
    [d EXCEPT !.recs = [o \in (DOMAIN d.recs) \cup {offset} |->
                            IF o = offset THEN val ELSE d.recs[o]],
              !.size = Max(@, offset + RAW_DIR_ENTRY_SIZE)]

\* the item dir_entry_stream yields for the record read at offset
StreamItem(raw_dir_entry, offset) ==
    [e |-> raw_dir_entry, offset |-> offset + raw_dir_entry.rec_len]

\* Inode::dir_entry_stream from the given offset: the items it yields, in order
RECURSIVE dir_entry_stream(_, _)
dir_entry_stream(d, offset) ==
    LET raw_dir_entry == InodeRead(d, offset)
    IN  IF raw_dir_entry.inode_id # 0
        THEN <<StreamItem(raw_dir_entry, offset)>>
                 \o dir_entry_stream(d, offset + raw_dir_entry.rec_len)
        ELSE <<>>

\* check_dir_entry_name
check_dir_entry_name(name) == name # "." /\ name # ".."

\* Inode::append_dot
append_dot(d, parent_inode_id) ==
    LET dot == RawDirEntryNew(d.inode_id, ".", "Dir")
        d1  == InodeWrite(d, 0, dot)
    IN  InodeWrite(d1, dot.rec_len, RawDirEntryNew(parent_inode_id, "..", "Dir"))

\* the loop of Inode::append over the items after `.` and `..`: the directory
\* after a split (if any), the insert offset and the new record's length
RECURSIVE append_scan(_, _, _, _)
append_scan(d, items, i, insert_offset) ==
    IF i > Len(items)
    THEN [d |-> d, insert_offset |-> insert_offset, new_rec_len |-> RAW_DIR_ENTRY_SIZE]
    ELSE LET dir_entry == items[i].e
             offset    == items[i].offset
             ins       == offset + dir_entry.rec_len
         IN  IF dir_entry.rec_len >= RAW_DIR_ENTRY_SIZE * 2
             THEN [d |-> InodeWrite(d, offset,
                                    [dir_entry EXCEPT !.rec_len = RAW_DIR_ENTRY_SIZE]),
                   insert_offset |-> ins,
                   new_rec_len |-> dir_entry.rec_len - RAW_DIR_ENTRY_SIZE]
             ELSE append_scan(d, items, i + 1, ins)

\* Inode::append, for a directory that holds `.` and `..`
append(d, inode_id, name, file_type) ==
    LET items == dir_entry_stream(d, 0)
        r     == append_scan(d, items, 3, items[2].offset)
    IN  InodeWrite(r.d, r.insert_offset,
                   with_rec_len(inode_id, name, file_type, r.new_rec_len))

\* the loop of Inode::remove: the directory afterwards and the removed entry
RECURSIVE remove_scan(_, _, _, _, _)
remove_scan(d, items, i, last_dir_entry, name) ==
    IF i > Len(items) THEN [d |-> d, ret |-> NoEntry]
    ELSE LET dir_entry == items[i].e
             offset    == items[i].offset
         IN  IF dir_entry.name = name /\ last_dir_entry # NoEntry
             THEN [d |-> InodeWrite(d, offset,
                             [last_dir_entry EXCEPT !.rec_len = @ + dir_entry.rec_len]),
                   ret |-> dir_entry]
             ELSE remove_scan(d, items, i + 1, dir_entry, name)

\* Inode::remove
remove(d, name) == remove_scan(d, dir_entry_stream(d, 0), 1, NoEntry, name)

\* Inode::lookup: the first streamed entry with that name, NoEntry for None
lookup(d, name) ==
    LET items == dir_entry_stream(d, 0)
        hits  == {i \in 1 .. Len(items) : items[i].e.name = name}
    IN  IF hits = {} THEN NoEntry
        ELSE items[CHOOSE i \in hits : \A j \in hits : i <= j].e

\* Inode::ls
ls(d) == LET items == dir_entry_stream(d, 0) IN [i \in 1 .. Len(items) |-> items[i].e]

DirIdle ==
    /\ dir = [inode_id |-> 3, size |-> 0, recs |-> <<>>]
    /\ dir_ret = <<>>
    /\ last_op = [n \in EntryNames |-> 0]

HasDots(d) == Len(dir_entry_stream(d, 0)) >= 2

DirAppendDot(parent) ==
    /\ dir.size = 0
    /\ dir' = append_dot(dir, parent)
    /\ dir_ret' = <<"append_dot">>
    /\ UNCHANGED <<last_op, exceptDir>>

\* a name is appended only while no entry of that name is live (Vfs::create
\* looks the name up first)
DirAppend(id, name) ==
    /\ HasDots(dir)
    /\ check_dir_entry_name(name)
    /\ last_op[name] = 0
    /\ dir.size < MaxDirRecs * RAW_DIR_ENTRY_SIZE
    /\ dir' = append(dir, id, name, "RegFile")
    /\ dir_ret' = <<"append">>
    /\ last_op' = [last_op EXCEPT ![name] = id]
    /\ UNCHANGED exceptDir

DirRemove(name) ==
    /\ HasDots(dir)
    /\ check_dir_entry_name(name)
    /\ dir.size < MaxDirRecs * RAW_DIR_ENTRY_SIZE
    /\ LET r == remove(dir, name)
       IN  /\ dir' = r.d
           /\ dir_ret' = <<"remove", r.ret>>
    /\ last_op' = [last_op EXCEPT ![name] = 0]
    /\ UNCHANGED exceptDir

DirLookup(name) ==
    /\ HasDots(dir)
    /\ dir_ret' = <<"lookup", name, lookup(dir, name)>>
    /\ UNCHANGED <<dir, last_op, exceptDir>>

DirLs ==
    /\ HasDots(dir)
    /\ dir_ret' = <<"ls", ls(dir)>>
    /\ UNCHANGED <<dir, last_op, exceptDir>>

NextDir ==
    \/ \E parent \in ParentIds : DirAppendDot(parent)
    \/ \E id \in InodeIds, name \in EntryNames : DirAppend(id, name)
    \/ \E name \in EntryNames : DirRemove(name)
    \/ \E name \in EntryNames : DirLookup(name)
    \/ DirLs

\* C9: lookup(name) returns the entry with inode id `id` exactly when the last
\* operation on name was append(name, id), and None when the name was never
\* appended or was removed last.
C9_LookupLastAppend ==
    \A name \in EntryNames :
        dir_ret = <<"lookup", name, lookup(dir, name)>>
            => lookup(dir, name).inode_id = last_op[name]

\* C10: walking the record chain from offset 0 yields `.`, `..` and every live
\* entry exactly once, and no removed entry.
C10_LsLiveExactlyOnce ==
    (Len(dir_ret) = 2 /\ dir_ret[1] = "ls") =>
        LET l    == dir_ret[2]
            live == {n \in EntryNames : last_op[n] # 0}
        IN  /\ Len(l) = 2 + Cardinality(live)
            /\ l[1].name = "." /\ l[1].inode_id = dir.inode_id
            /\ l[2].name = ".." /\ l[2].inode_id \in ParentIds
            /\ \A n \in live :
                  \E i \in 3 .. Len(l) : l[i].name = n /\ l[i].inode_id = last_op[n]

(***************************************************************************)
(* crates/executor/src/fifo.rs: FIFOExecutor.  One hart runs                *)
(* run_ready_tasks (main.rs kmain); an iteration pops an id, takes the      *)
(* tasks lock and polls the future under it, so the iteration is two steps  *)
(* (PopTask, PollReturn) between which wakers can be invoked.               *)
(***************************************************************************)
\* FIFOExecutor::new(queue_size): capacity of task_queue
QueueSize == 2

\* ghost: how many futures are spawned in a behaviour
MaxSpawns == 3

TaskIds == 1 .. 3

NoTask == [id |-> 0, gen |-> 0]

\* outcomes of ThreadFuture::poll: Ready; Pending; Pending after waking itself
\* (Trap::Timer)
PollOutcomes == {"Ready", "Pending", "PendingWake"}

SeqToSet(q) == {q[i] : i \in 1 .. Len(q)}

\* BTreeMap::insert
MapInsert(m, k, v) == [x \in (DOMAIN m) \cup {k} |-> IF x = k THEN v ELSE m[x]]

\* a run_ready_tasks iteration that keeps the entry of a future that is Ready
MapRemove_Keep(m, k) == m

\* BTreeMap::remove
MapRemove(m, k) == [x \in (DOMAIN m) \ {k} |-> m[x]]

\* ArrayQueue::push: Err (ok = FALSE) when the queue is full
QueuePush(q, id) ==
    IF Len(q) >= QueueSize THEN [ok |-> FALSE, q |-> q]
    ELSE [ok |-> TRUE, q |-> Append(q, id)]

\* no thread has yielded on a Timer trap and waits for its next poll
NoYield == [id |-> 0, ahead |-> {}, overtook |-> FALSE]

ExecIdle ==
    /\ tasks = <<>>
    /\ task_queue = <<>>
    /\ cur = NoTask
    /\ exec_state = "running"
    /\ exec_ret = "none"
    /\ next_gen = 0
    /\ ready_gens = {}
    /\ repolled = FALSE
    /\ wake_pending = {}
    /\ yielded = NoYield

\* FIFOExecutor::spawn called while the tasks lock is free (proc::init, or any
\* caller outside a poll).  Thread ids are unique among live threads, so the
\* id is not in the map.
Spawn(id) ==
    /\ exec_state = "running"
    /\ cur = NoTask
    /\ id \notin DOMAIN tasks
    /\ next_gen < MaxSpawns
    /\ IF Cardinality(DOMAIN tasks) >= QueueSize
       THEN /\ exec_ret' = "None"
            /\ UNCHANGED <<tasks, task_queue, next_gen>>
       ELSE LET r == QueuePush(task_queue, id)
            IN  /\ tasks' = MapInsert(tasks, id, [gen |-> next_gen + 1, waker |-> FALSE])
                /\ task_queue' = r.q
                /\ next_gen' = next_gen + 1
                \* push(..).map_or(Some(()), |_| None)
                /\ exec_ret' = IF r.ok THEN "None" ELSE "Some"
    /\ UNCHANGED <<cur, exec_state, ready_gens, repolled, wake_pending, yielded, exceptExec>>

\* FIFOExecutor::spawn called from a syscall of the task being polled
\* (sys_fork): run_ready_tasks holds the tasks lock across the poll and the
\* lock is a non-reentrant spin lock
SpawnInPoll ==
    /\ exec_state = "running"
    /\ cur # NoTask
    /\ exec_state' = "deadlock"
    /\ UNCHANGED <<tasks, task_queue, cur, exec_ret, next_gen, ready_gens, repolled,
                   wake_pending, yielded, exceptExec>>

\* run_ready_tasks: pop an id; skip it when it is not in the map; otherwise
\* build the waker when missing and start polling the future
PopTask ==
    /\ exec_state = "running"
    /\ cur = NoTask
    /\ task_queue # <<>>
    /\ LET task_id == Head(task_queue)
       IN  /\ task_queue' = Tail(task_queue)
           /\ IF task_id \notin DOMAIN tasks
              THEN UNCHANGED <<tasks, cur, repolled, wake_pending, yielded>>
              ELSE /\ tasks' = [tasks EXCEPT ![task_id].waker = TRUE]
                   /\ cur' = [id |-> task_id, gen |-> tasks[task_id].gen]
                   /\ repolled' = (repolled \/ tasks[task_id].gen \in ready_gens)
                   /\ wake_pending' = wake_pending \ {task_id}
                   /\ yielded' = IF task_id = yielded.id
                                 THEN [NoYield EXCEPT !.overtook =
                                          yielded.overtook \/ yielded.ahead # {}]
                                 ELSE [yielded EXCEPT !.ahead = @ \ {task_id}]
    /\ UNCHANGED <<exec_state, exec_ret, next_gen, ready_gens, exceptExec>>

\* TaskWaker::wake_task, invoked by anyone holding a waker of id (thread.waker()
\* needs no entry in the map)
Wake(id) ==
    /\ exec_state = "running"
    /\ LET r == QueuePush(task_queue, id)
       IN  /\ task_queue' = r.q
           /\ exec_state' = IF r.ok THEN exec_state ELSE "panic"
    /\ wake_pending' = IF id \in DOMAIN tasks
                       THEN wake_pending \cup {id} ELSE wake_pending
    /\ UNCHANGED <<tasks, cur, exec_ret, next_gen, ready_gens, repolled, yielded, exceptExec>>

\* the poll started by PopTask returns; the entry is removed when it is Ready
PollReturn(outcome) ==
    /\ exec_state = "running"
    /\ cur # NoTask
    /\ LET r == QueuePush(task_queue, cur.id)
       IN  CASE outcome = "PendingWake" ->
                    \* cx.waker().wake_by_ref(); return Poll::Pending
                    /\ task_queue' = r.q
                    /\ exec_state' = IF r.ok THEN exec_state ELSE "panic"
                    /\ wake_pending' = wake_pending \cup {cur.id}
                    /\ yielded' = [yielded EXCEPT
                                      !.id = cur.id,
                                      !.ahead = (SeqToSet(task_queue) \cap DOMAIN tasks)
                                                   \ {cur.id}]
             [] outcome = "Pending" ->
                    UNCHANGED <<task_queue, exec_state, wake_pending, yielded>>
             [] outcome = "Ready" ->
                    /\ wake_pending' = wake_pending \ {cur.id}
                    /\ UNCHANGED <<task_queue, exec_state, yielded>>
    /\ IF outcome = "Ready"
       THEN /\ tasks' = MapRemove(tasks, cur.id)
            /\ ready_gens' = ready_gens \cup {cur.gen}
       ELSE UNCHANGED <<tasks, ready_gens>>
    /\ cur' = NoTask
    /\ UNCHANGED <<exec_ret, next_gen, repolled, exceptExec>>

NextExec ==
    \/ \E id \in TaskIds : Spawn(id)
    \/ SpawnInPoll
    \/ PopTask
    \/ \E id \in TaskIds : Wake(id)
    \/ \E outcome \in PollOutcomes : PollReturn(outcome)

\* kmain loops over run_ready_tasks forever, and a poll that was started returns
FairExec ==
    /\ WF_vars(PopTask)
    /\ WF_vars(\E outcome \in PollOutcomes : PollReturn(outcome))

\* C6: once a task's future has returned Ready, its entry is gone from the task
\* map and the future is never polled again; when all spawned tasks (a parent
\* and its child) have finished, none of their ids is in the map.
C6_ReadyTaskGone ==
    /\ \A id \in DOMAIN tasks : tasks[id].gen \notin ready_gens
    /\ cur # NoTask => cur.gen \notin ready_gens
    /\ ~repolled

\* two tasks have finished, the map is empty, and a stale wake-up of a finished
\* task is still queued
C6_Witness ==
    /\ Cardinality(ready_gens) >= 2
    /\ DOMAIN tasks = {}
    /\ task_queue # <<>>
    /\ exec_state = "running"

\* C7: whenever a waker is invoked for a task in the map, the id is on the ready
\* queue, and a later run_ready_tasks iteration polls the task: no wake-up is
\* lost.
C7_NoWakeupLost ==
    /\ [](\A id \in wake_pending : id \in SeqToSet(task_queue) \/ cur.id = id)
    /\ \A id \in TaskIds : (id \in wake_pending) ~> (id \notin wake_pending)

\* C39: when spawn(f) returns None (failure), the task map and the ready
\* queue are what they were before the call: f is not registered under its
\* id and its id is not queued for a poll
C39_FailedSpawnChangesNothing ==
    [][\A id \in TaskIds :
          (Spawn(id) /\ exec_ret' = "None") =>
              /\ tasks' = tasks
              /\ task_queue' = task_queue
              /\ id \notin DOMAIN tasks']_vars

\* C37: a thread whose poll ended with a Timer trap (it woke itself and
\* returned Pending) is polled again later, and every other task that was on
\* the ready queue when it yielded is polled before it
C37_TimerYieldsToQueuedTasks ==
    /\ [](~yielded.overtook)
    /\ \A id \in TaskIds : (yielded.id = id) ~> (yielded.id # id)

(***************************************************************************)
(* crates/mm: BumpAllocator, PageTable, PageTableEntry, PageMapper.  Memory *)
(* is an array of frames of PTE_COUNT words; a word holds a page-table      *)
(* entry in the Sv39 layout (flags in bits 0..9, frame number from bit 10)  *)
(* or a data value, and page tables are read from the same words that data  *)
(* is written to.  The geometry is scaled down: PAGE_LEVELS levels of       *)
(* PTE_COUNT entries, and a page is accessed one word at a time.  Frame 0   *)
(* is not RAM, frames 1 .. NumFrames are the allocator's range, and frame   *)
(* NumFrames + 1 is device memory outside it.  RAM is zero at boot.         *)
(***************************************************************************)
PAGE_SIZE_SHIFT == 12

PAGE_SIZE == 2 ^ PAGE_SIZE_SHIFT

PTE_COUNT == 2

PAGE_LEVELS == 2

NumFrames == 10

\* bounds on the number of mapper operations in a behaviour
MaxMemSteps == 5

MaxCowSteps == 12

FLAG_PTE_VALID == 1

FLAG_PTE_READABLE == 2

FLAG_PTE_WRITEABLE == 4

FLAG_PTE_EXECUTABLE == 8

Frames == 0 .. (NumFrames + 1)

DeviceFrame == (NumFrames + 1) * PAGE_SIZE

NoFrame == 0 - 1

WordIdxs == 0 .. (PTE_COUNT - 1)

VPages == {0, 1}

Asids == {1, 2}

HasFlag(x, bit) == (x \div bit) % 2 = 1

SetFlag(x, bit) == IF HasFlag(x, bit) THEN x ELSE x + bit

ClearFlag(x, bit) == IF HasFlag(x, bit) THEN x - bit ELSE x

\* PageParamSv39::flag_set_user
flag_set_user(flags) == SetFlag(flags, 16)

\* PageParamSv39::pte_is_kernel
pte_is_kernel(pte) == ~HasFlag(pte, 16)

\* PageParamSv39::create_pte, for flags below bit 10
create_pte(addr, flags) == (((addr \div 4) \div 1024) * 1024) + flags

\* PageParamSv39::create_nonleaf_pte
create_nonleaf_pte(addr) == (((addr \div 4) \div 1024) * 1024) + FLAG_PTE_VALID

\* PageParamSv39::pte_address
pte_address(pte) == ((pte \div 1024) * 1024) * 4

\* PageParamSv39::pte_has_next_table
pte_has_next_table(pte) ==
    /\ ~HasFlag(pte, FLAG_PTE_READABLE)
    /\ ~HasFlag(pte, FLAG_PTE_WRITEABLE)
    /\ ~HasFlag(pte, FLAG_PTE_EXECUTABLE)

pte_is_valid(pte) == HasFlag(pte, FLAG_PTE_VALID)

pte_writeable(pte) == HasFlag(pte, FLAG_PTE_WRITEABLE)

pte_readable(pte) == HasFlag(pte, FLAG_PTE_READABLE)

pte_set_invalid(pte) == ClearFlag(pte, FLAG_PTE_VALID)

\* a clone that stays writable
pte_borrow_Writable(pte) == pte

\* PageParam::pte_borrow
pte_borrow(pte) == ClearFlag(pte, FLAG_PTE_WRITEABLE)

\* PageParam::pte_set_writable and PageParam::pte_flags are used by
\* handle_page_fault but are not part of the sources at hand
pte_set_writable(pte) == SetFlag(pte, FLAG_PTE_WRITEABLE)

pte_flags(pte) == pte % 1024

\* PageParamSv39::pte_idxs, one index per level, scaled to PTE_COUNT entries
pte_idx(va, level) ==
    ((va \div PAGE_SIZE) \div (PTE_COUNT ^ (PAGE_LEVELS - 1 - level))) % PTE_COUNT

FrameOf(addr) == addr \div PAGE_SIZE

\* recursion over page tables deeper than this runs through a cycle of tables
\* and does not return
MaxDepth == NumFrames + 2

(* BumpAllocator.  allocated is a usize; the value kept here is the counter
   modulo 2^64 with the wrapped values written as negative numbers. *)
BumpNew(start, end) ==
    [next |-> start, start |-> start, end |-> end, allocated |-> 0,
     crashed |-> FALSE, log |-> <<>>]

\* BumpAllocator::alloc
BumpAlloc(fa) ==
    IF fa.next < fa.end - PAGE_SIZE
    THEN [fa |-> [fa EXCEPT !.next = @ + PAGE_SIZE, !.allocated = @ + 1,
                            !.log = Append(@, fa.next)],
          frame |-> fa.next]
    ELSE [fa |-> fa, frame |-> NoFrame]

\* BumpAllocator::dealloc
BumpDealloc(fa) ==
    IF fa.allocated = 0 /\ overflow_checks
    THEN [fa EXCEPT !.crashed = TRUE]
    ELSE [fa EXCEPT !.allocated = @ - 1,
                    !.next = IF fa.allocated - 1 = 0 THEN fa.start ELSE @]

(* Page tables.  The operations work on st = [mem, fa]: memory and the
   frame allocator. *)
PteAt(st, tab, idx) == st.mem[FrameOf(tab)][idx]

\* PageTableEntry::set_data
SetData(st, tab, idx, data) == [st EXCEPT !.mem[FrameOf(tab)][idx] = data]

Dealloc(st) == [st EXCEPT !.fa = BumpDealloc(@)]

Crash(st) == [st EXCEPT !.fa.crashed = TRUE]

RECURSIVE TableFree(_, _, _, _)
RECURSIVE PteFree(_, _, _, _)
\* PageTableEntry::free
PteFree(st, tab, idx, depth) ==
    LET pte == PteAt(st, tab, idx)
    IN  IF st.fa.crashed \/ ~pte_is_valid(pte) THEN st
        ELSE LET st1 == IF pte_has_next_table(pte)
                        THEN TableFree(st, pte_address(pte), 0, depth + 1)
                        ELSE Dealloc(st)
             IN  IF st1.fa.crashed THEN st1
                 ELSE SetData(st1, tab, idx, pte_set_invalid(PteAt(st1, tab, idx)))

\* PageTable::free: the valid entries from idx on, then the table's frame
TableFree(st, tab, idx, depth) ==
    IF st.fa.crashed THEN st
    ELSE IF depth > MaxDepth THEN Crash(st)
    ELSE IF idx = PTE_COUNT THEN Dealloc(st)
    ELSE TableFree(PteFree(st, tab, idx, depth), tab, idx + 1, depth)

RECURSIVE TableBorrow(_, _, _)
RECURSIVE TableBorrowFrom(_, _, _, _, _)
\* PageTable::borrow_memory: frame is NoFrame on Err
TableBorrow(st, src, depth) ==
    IF depth > MaxDepth THEN [st |-> Crash(st), frame |-> NoFrame]
    ELSE LET a == BumpAlloc(st.fa)
         IN  IF a.frame = NoFrame THEN [st |-> st, frame |-> NoFrame]
             ELSE TableBorrowFrom([st EXCEPT !.fa = a.fa], src, a.frame, 0, depth)

\* the loop of PageTable::borrow_memory with PageTableEntry::borrow_memory
TableBorrowFrom(st, src, tgt, idx, depth) ==
    IF idx = PTE_COUNT THEN [st |-> st, frame |-> tgt]
    ELSE LET pte == PteAt(st, src, idx)
         IN  IF ~pte_is_valid(pte)
             THEN TableBorrowFrom(st, src, tgt, idx + 1, depth)
             ELSE IF pte_has_next_table(pte)
             THEN LET r == TableBorrow(st, pte_address(pte), depth + 1)
                  IN  IF r.frame = NoFrame THEN r
                      ELSE TableBorrowFrom(
                               SetData(r.st, tgt, idx, create_nonleaf_pte(r.frame)),
                               src, tgt, idx + 1, depth)
             ELSE TableBorrowFrom(SetData(st, tgt, idx, pte_borrow(pte)),
                                  src, tgt, idx + 1, depth)

\* PageMapper::map from the table at `level`
RECURSIVE MapWalk(_, _, _, _, _, _)
MapWalk(st, tab, level, va, frame, flags) ==
    LET idx == pte_idx(va, level)
        pte == PteAt(st, tab, idx)
    IN  IF level = PAGE_LEVELS - 1
        THEN [st  |-> SetData(st, tab, idx,
                              create_pte(frame, SetFlag(flags, FLAG_PTE_VALID))),
              err |-> "Ok"]
        ELSE IF ~pte_is_valid(pte)
        THEN LET a == BumpAlloc(st.fa)
             IN  IF a.frame = NoFrame THEN [st |-> st, err |-> "NoSpace"]
                 ELSE MapWalk(SetData([st EXCEPT !.fa = a.fa], tab, idx,
                                      create_nonleaf_pte(a.frame)),
                              a.frame, level + 1, va, frame, flags)
        ELSE IF pte_has_next_table(pte)
        THEN MapWalk(st, pte_address(pte), level + 1, va, frame, flags)
        ELSE [st |-> st, err |-> "InvalidVirtualAddress"]

\* PageMapper::map
PageMap(st, root, va, frame, flags) == MapWalk(st, root, 0, va, frame, flags)

\* PageMapper::unmap from the table at `level`: ret is "Some" with the place
\* (tab, idx) of the removed entry, or "Err"
RECURSIVE UnmapWalk(_, _, _, _)
UnmapWalk(st, tab, level, va) ==
    IF level = PAGE_LEVELS
    THEN [st |-> st, ret |-> "Err", tab |-> NoFrame, idx |-> 0]
    ELSE LET idx == pte_idx(va, level)
             pte == PteAt(st, tab, idx)
         IN  IF ~pte_is_valid(pte)
             THEN [st |-> st, ret |-> "Err", tab |-> NoFrame, idx |-> 0]
             ELSE IF pte_has_next_table(pte)
             THEN UnmapWalk(st, pte_address(pte), level + 1, va)
             ELSE [st |-> PteFree(st, tab, idx, 0), ret |-> "Some",
                   tab |-> tab, idx |-> idx]

\* PageMapper::unmap
PageUnmap(st, root, va) == UnmapWalk(st, root, 0, va)

\* the unmap the design describes: the leaf is cleared, its frame is kept
RECURSIVE UnmapWalk_KeepFrame(_, _, _, _)
UnmapWalk_KeepFrame(st, tab, level, va) ==
    IF level = PAGE_LEVELS
    THEN [st |-> st, ret |-> "Err", tab |-> NoFrame, idx |-> 0]
    ELSE LET idx == pte_idx(va, level)
             pte == PteAt(st, tab, idx)
         IN  IF ~pte_is_valid(pte)
             THEN [st |-> st, ret |-> "Err", tab |-> NoFrame, idx |-> 0]
             ELSE IF pte_has_next_table(pte)
             THEN UnmapWalk_KeepFrame(st, pte_address(pte), level + 1, va)
             ELSE [st |-> SetData(st, tab, idx, pte_set_invalid(pte)), ret |-> "Some",
                   tab |-> tab, idx |-> idx]

\* PageMapper::unmap_and_dealloc
PageUnmapAndDealloc(st, root, va) ==
    LET u == PageUnmap(st, root, va)
    IN  IF u.ret = "Some" /\ ~u.st.fa.crashed
        THEN [u EXCEPT !.st = Dealloc(@)]
        ELSE u

\* the page-table walk of the MMU: the leaf entry that maps va, 0 on a fault
RECURSIVE Translate(_, _, _, _)
Translate(m, tab, level, va) ==
    LET pte == m[FrameOf(tab)][pte_idx(va, level)]
    IN  IF ~pte_is_valid(pte) THEN 0
        ELSE IF ~pte_has_next_table(pte) THEN pte
        ELSE IF level = PAGE_LEVELS - 1 THEN 0
        ELSE Translate(m, pte_address(pte), level + 1, va)

\* PageMapper::alloc_and_map
PageAllocAndMap(st, root, va, flags, init_data) ==
    LET a == BumpAlloc(st.fa)
    IN  IF a.frame = NoFrame THEN [st |-> st, err |-> "NoSpace"]
        ELSE LET r == PageMap([st EXCEPT !.fa = a.fa], root, va, a.frame, flags)
             IN  IF r.err # "Ok" THEN r
                 ELSE [r EXCEPT !.st.mem[FrameOf(a.frame)] =
                          [i \in WordIdxs |-> IF i < Len(init_data)
                                              THEN init_data[i + 1] ELSE @[i]]]

\* PageMapper::handle_page_fault, called with a page that the active address
\* space maps
PageHandlePageFault(st, root, va) ==
    LET a == BumpAlloc(st.fa)
    IN  IF a.frame = NoFrame THEN [st |-> st, err |-> "NoSpace"]
        ELSE LET src == FrameOf(pte_address(Translate(st.mem, root, 0, va)))
                 st1 == [st EXCEPT !.fa = a.fa,
                                   !.mem[FrameOf(a.frame)] = st.mem[src]]
                 u   == PageUnmap(st1, root, va)
             IN  IF u.ret = "Err" \/ u.st.fa.crashed
                 THEN [st |-> u.st, err |-> "InvalidVirtualAddress"]
                 ELSE PageMap(u.st, root, va, a.frame,
                              pte_flags(pte_set_writable(PteAt(u.st, u.tab, u.idx))))

\* the frames that the valid page-table entries of the tree at tab refer to
RECURSIVE Refs(_, _, _)
Refs(m, tab, level) ==
    UNION {LET pte == m[FrameOf(tab)][idx]
           IN  IF ~pte_is_valid(pte) THEN {}
               ELSE {pte_address(pte)} \cup
                    (IF pte_has_next_table(pte) /\ level < PAGE_LEVELS - 1
                     THEN Refs(m, pte_address(pte), level + 1) ELSE {})
           : idx \in WordIdxs}

(* The mapper operations as actions. *)
\* flags of the pages mapped: user read-write, user read-only
UserFlags ==
    {flag_set_user(FLAG_PTE_READABLE + FLAG_PTE_WRITEABLE), flag_set_user(FLAG_PTE_READABLE)}

\* flags of a linear kernel mapping of device memory
KernelFlags == FLAG_PTE_READABLE + FLAG_PTE_WRITEABLE

\* init_data of alloc_and_map: nothing, or a page of 0xAA
InitDatas == {<<>>, [i \in 1 .. PTE_COUNT |-> 170]}

\* the value user code stores: 0xBB
WriteVals == {187}

NoCow == [parent |-> 0, child |-> 0, pages |-> <<>>]

VaOf(v) == v * PAGE_SIZE

MemIdle ==
    /\ mem = [f \in Frames |-> [i \in WordIdxs |-> 0]]
    /\ frame_alloc = BumpNew(PAGE_SIZE, (NumFrames + 1) * PAGE_SIZE)
    /\ spaces = <<>>
    /\ mem_state = "ok"
    /\ mem_ret = <<>>
    /\ overflow_checks \in BOOLEAN
    /\ cow = NoCow
    /\ rehanded = {}
    /\ mem_steps = 0

St0 == [mem |-> mem, fa |-> frame_alloc]

LiveRefs == UNION {Refs(mem, spaces[a], 0) : a \in DOMAIN spaces}

\* the leaf entry through which user code of address space a reaches page v
UserPte(m, sp, a, v) ==
    IF a \notin DOMAIN sp THEN 0
    ELSE LET pte == Translate(m, sp[a], 0, VaOf(v))
         IN  IF pte_is_kernel(pte) THEN 0 ELSE pte

\* the word user code of a reads at offset o of page v, NoFrame on a fault
UserRead(m, sp, a, v, o) ==
    LET pte == UserPte(m, sp, a, v)
    IN  IF pte_is_valid(pte) /\ pte_readable(pte)
        THEN m[FrameOf(pte_address(pte))][o] ELSE NoFrame

\* page v of address space a is mapped.  Memory::add_user_segment refuses a
\* segment that overlaps one it holds (check_overlap) and Segment::unmap walks
\* the pages of a segment that was mapped, so pages are mapped when they are
\* not and unmapped when they are.
Mapped(a, v) == pte_is_valid(Translate(mem, spaces[a], 0, VaOf(v)))

MemStep ==
    /\ mem_state = "ok"
    /\ mem_steps' = mem_steps + 1
    /\ UNCHANGED <<overflow_checks, exceptMem>>

\* the operation went through a kernel panic
MemPanic ==
    /\ mem_state' = "panic"
    /\ UNCHANGED <<mem, frame_alloc, spaces, mem_ret, cow, rehanded>>

\* the operation returned, leaving memory and allocator as in st
MemCommit(st) ==
    /\ mem' = st.mem
    /\ frame_alloc' = [st.fa EXCEPT !.log = <<>>]
    /\ rehanded' = {f \in SeqToSet(st.fa.log) : f \in LiveRefs}
    /\ UNCHANGED mem_state

Touch(a, v) ==
    IF a \in {cow.parent, cow.child} /\ v \in DOMAIN cow.pages
    THEN [cow EXCEPT !.pages[v].dirty = TRUE, !.pages[v].remapped = TRUE] ELSE cow

TouchAll(a) ==
    IF a \in {cow.parent, cow.child}
    THEN [cow EXCEPT !.pages = [v \in DOMAIN cow.pages |->
                                   [@[v] EXCEPT !.dirty = TRUE, !.remapped = TRUE]]]
    ELSE cow

\* PageMapper::create
MemCreate(a) ==
    /\ MemStep
    /\ a \notin DOMAIN spaces
    /\ LET r == BumpAlloc(St0.fa)
       IN  /\ MemCommit([St0 EXCEPT !.fa = r.fa])
           /\ spaces' = IF r.frame = NoFrame THEN spaces ELSE MapInsert(spaces, a, r.frame)
           /\ mem_ret' = <<"create", a, IF r.frame = NoFrame THEN "NoSpace" ELSE "Ok">>
    /\ UNCHANGED cow

\* PageMapper::map of a page onto device memory (Segment::map, MapType::Linear)
MemMap(a, v) ==
    /\ MemStep
    /\ a \in DOMAIN spaces
    /\ ~Mapped(a, v)
    /\ LET r == PageMap(St0, spaces[a], VaOf(v), DeviceFrame, KernelFlags)
       IN  /\ MemCommit(r.st)
           /\ mem_ret' = <<"map", a, v, r.err>>
    /\ cow' = Touch(a, v)
    /\ UNCHANGED spaces

\* PageMapper::alloc_and_map (Segment::map, MapType::Framed)
MemAllocAndMap(a, v, flags, init_data) ==
    /\ MemStep
    /\ a \in DOMAIN spaces
    /\ ~Mapped(a, v)
    /\ LET r == PageAllocAndMap(St0, spaces[a], VaOf(v), flags, init_data)
       IN  /\ MemCommit(r.st)
           /\ mem_ret' = <<"alloc_and_map", a, v, r.err>>
    /\ cow' = Touch(a, v)
    /\ UNCHANGED spaces

\* PageMapper::unmap
MemUnmap(a, v) ==
    /\ MemStep
    /\ a \in DOMAIN spaces
    /\ Mapped(a, v)
    /\ LET u == PageUnmap(St0, spaces[a], VaOf(v))
       IN  IF u.st.fa.crashed THEN MemPanic
           ELSE /\ MemCommit(u.st)
                /\ mem_ret' = <<"unmap", a, v, u.ret>>
                /\ cow' = Touch(a, v)
                /\ UNCHANGED spaces

\* PageMapper::unmap_and_dealloc
MemUnmapAndDealloc(a, v) ==
    /\ MemStep
    /\ a \in DOMAIN spaces
    /\ Mapped(a, v)
    /\ LET u == PageUnmapAndDealloc(St0, spaces[a], VaOf(v))
       IN  IF u.st.fa.crashed THEN MemPanic
           ELSE /\ MemCommit(u.st)
                /\ mem_ret' = <<"unmap_and_dealloc", a, v, u.ret>>
                /\ cow' = Touch(a, v)
                /\ UNCHANGED spaces

\* PageMapper::borrow_memory: address space c becomes the clone of p
MemBorrowMemory(p, c) ==
    /\ MemStep
    /\ p \in DOMAIN spaces
    /\ c \notin DOMAIN spaces
    /\ LET r == TableBorrow(St0, spaces[p], 0)
       IN  IF r.st.fa.crashed THEN MemPanic
           ELSE /\ MemCommit(r.st)
                /\ IF r.frame = NoFrame
                   THEN /\ mem_ret' = <<"borrow_memory", p, c, "NoSpace">>
                        /\ UNCHANGED <<spaces, cow>>
                   ELSE /\ mem_ret' = <<"borrow_memory", p, c, "Ok">>
                        /\ spaces' = MapInsert(spaces, c, r.frame)
                        /\ cow' = [parent |-> p, child |-> c,
                                   pages |-> [v \in {w \in VPages :
                                                 pte_writeable(UserPte(mem, spaces, p, w))}
                                              |-> [pre |-> mem[FrameOf(pte_address(
                                                              UserPte(mem, spaces, p, v)))],
                                                   cw |-> <<>>, dirty |-> FALSE,
                                                   pw |-> <<>>, remapped |-> FALSE]]]

\* a store of user code to a write-protected page traps (Trap::PageFault) and
\* ThreadFuture::poll calls PageMapper::handle_page_fault of the address space
MemHandlePageFault(a, v) ==
    /\ MemStep
    /\ pte_is_valid(UserPte(mem, spaces, a, v))
    /\ ~pte_writeable(UserPte(mem, spaces, a, v))
    /\ LET r == PageHandlePageFault(St0, spaces[a], VaOf(v))
       IN  IF r.st.fa.crashed THEN MemPanic
           ELSE /\ MemCommit(r.st)
                /\ mem_ret' = <<"handle_page_fault", a, v, r.err>>
                /\ UNCHANGED <<spaces, cow>>

\* PageMapper::free_page_table; the address space is gone afterwards
MemFreePageTable(a) ==
    /\ MemStep
    /\ a \in DOMAIN spaces
    /\ LET st == TableFree(St0, spaces[a], 0, 0)
       IN  IF st.fa.crashed THEN MemPanic
           ELSE /\ MemCommit(st)
                /\ mem_ret' = <<"free_page_table", a>>
                /\ spaces' = MapRemove(spaces, a)
                /\ cow' = TouchAll(a)

\* user code of address space a stores val at offset o of the writable page v
MemUserWrite(a, v, o, val) ==
    /\ MemStep
    /\ pte_is_valid(UserPte(mem, spaces, a, v))
    /\ pte_writeable(UserPte(mem, spaces, a, v))
    /\ mem' = [mem EXCEPT ![FrameOf(pte_address(UserPte(mem, spaces, a, v)))][o] = val]
    /\ mem_ret' = <<"write", a, v, o>>
    /\ cow' = IF v \notin DOMAIN cow.pages THEN cow
              ELSE IF a = cow.child
              THEN [cow EXCEPT !.pages[v].cw = MapInsert(@, o, val)]
              ELSE IF a = cow.parent
              THEN [cow EXCEPT !.pages[v].dirty = TRUE,
                               !.pages[v].pw = MapInsert(@, o, val)]
              ELSE cow
    /\ rehanded' = {}
    /\ UNCHANGED <<frame_alloc, spaces, mem_state>>

NextMemOps ==
    \/ \E a \in Asids : MemCreate(a)
    \/ \E a \in Asids, v \in VPages : MemMap(a, v)
    \/ \E a \in Asids, v \in VPages, flags \in UserFlags, init_data \in InitDatas :
           MemAllocAndMap(a, v, flags, init_data)
    \/ \E a \in Asids, v \in VPages : MemUnmap(a, v)
    \/ \E a \in Asids, v \in VPages : MemUnmapAndDealloc(a, v)
    \/ \E p \in Asids, c \in Asids : MemBorrowMemory(p, c)
    \/ \E a \in Asids, v \in VPages : MemHandlePageFault(a, v)
    \/ \E a \in Asids : MemFreePageTable(a)
    \/ \E a \in Asids, v \in VPages, o \in WordIdxs, val \in WriteVals :
           MemUserWrite(a, v, o, val)

NextMem == mem_steps < MaxMemSteps /\ NextMemOps

\* the life of a process that maps and unmaps pages and then forks: address
\* space 1 is the parent, 2 the child, which writes to the pages it inherits
NextCowOps ==
    \/ MemCreate(1)
    \/ \E v \in VPages :
           MemAllocAndMap(1, v, flag_set_user(FLAG_PTE_READABLE + FLAG_PTE_WRITEABLE),
                          [i \in 1 .. PTE_COUNT |-> 170])
    \/ \E v \in VPages : MemUnmapAndDealloc(1, v)
    \/ MemBorrowMemory(1, 2)
    \/ \E v \in VPages : MemHandlePageFault(2, v)
    \/ \E v \in VPages, val \in WriteVals : MemUserWrite(2, v, 0, val)

NextCow == mem_steps < MaxCowSteps /\ NextCowOps

\* a process that maps pages and forks, after which both the parent and the
\* child store to the pages they share
NextCowParent ==
    /\ mem_steps < MaxCowSteps
    /\ \/ MemCreate(1)
       \/ \E v \in VPages :
              MemAllocAndMap(1, v, flag_set_user(FLAG_PTE_READABLE + FLAG_PTE_WRITEABLE),
                             [i \in 1 .. PTE_COUNT |-> 170])
       \/ MemBorrowMemory(1, 2)
       \/ \E v \in VPages : MemHandlePageFault(2, v)
       \/ \E a \in Asids, v \in VPages, val \in WriteVals : MemUserWrite(a, v, 0, val)

\* C4: after borrow_memory, when the child has written to a page that was
\* writable in the parent (and nothing else was done to the page), the parent
\* reads the bytes from before the fork, the child reads its own value at the
\* offsets it wrote and the bytes from before the fork at every other offset.
C4_ChildWriteIsPrivate ==
    \A v \in DOMAIN cow.pages :
        (~cow.pages[v].dirty /\ DOMAIN cow.pages[v].cw # {}) =>
            \A o \in WordIdxs :
                /\ UserRead(mem, spaces, cow.parent, v, o) = cow.pages[v].pre[o]
                /\ UserRead(mem, spaces, cow.child, v, o) =
                       IF o \in DOMAIN cow.pages[v].cw THEN cow.pages[v].cw[o]
                       ELSE cow.pages[v].pre[o]

\* C29: after borrow_memory, when the parent has written to a page it
\* shares with the child (the page being neither mapped nor unmapped since),
\* the child still reads the bytes from before the parent's write: its own
\* value at the offsets it wrote, the bytes from before the fork elsewhere.
C29_ParentWriteIsPrivate ==
    \A v \in DOMAIN cow.pages :
        (~cow.pages[v].remapped /\ DOMAIN cow.pages[v].pw # {}) =>
            \A o \in WordIdxs :
                UserRead(mem, spaces, cow.child, v, o) =
                    IF o \in DOMAIN cow.pages[v].cw THEN cow.pages[v].cw[o]
                    ELSE cow.pages[v].pre[o]

\* C5: no valid page-table entry of a live address space refers to a frame of
\* the allocator's range that the allocator holds free or has handed out again.
C5_NoLivePteToFreeFrame ==
    \A f \in LiveRefs :
        (frame_alloc.start <= f /\ f < frame_alloc.end) =>
            (f < frame_alloc.next /\ f \notin rehanded)

\* C18: an unmap that returns the removed entry leaves the page unmapped and
\* the count of allocated frames as it was (the frame is not given back); an
\* unmap_and_dealloc that returns leaves the page unmapped and gives exactly
\* one frame back to the allocator.
C18_UnmapLeavesFrameToCaller ==
    [][(mem_steps' = mem_steps + 1 /\ mem_state' = "ok" /\ mem_ret' # mem_ret
            /\ mem_ret'[1] \in {"unmap", "unmap_and_dealloc"} /\ mem_ret'[4] = "Some") =>
           /\ ~pte_is_valid(Translate(mem', spaces'[mem_ret'[2]], 0, VaOf(mem_ret'[3])))
           /\ frame_alloc'.allocated =
                  IF mem_ret'[1] = "unmap" THEN frame_alloc.allocated
                  ELSE frame_alloc.allocated - 1]_vars

(***************************************************************************)
(* Signals: src/src/proc/signal.rs, src/src/proc/process.rs (Signal) and   *)
(* the prefix of ThreadFuture::poll in src/src/proc/thread.rs.  A           *)
(* SignalSet (u64 bitmask, bit sig-1) is the set of its signal numbers.     *)
(***************************************************************************)
\* queue capacity, scaled down from 11
SIGPENDING_QUEUE_CAP == 2

\* number of signal operations explored
MaxSigSteps == 3

SIGKILL == 9

SIGUSR1 == 10

SIGCONT == 18

SIGSTOP == 19

SIGRTMIN == 32

SIGRT33 == 33

NSIG == 64

SIG_HANDLER_DFL == 0

SIG_HANDLER_IGN == 1

SI_USER == 0

SI_KERNEL == 128

FLAGS_SIG_STOPPING == 1

FLAGS_HAS_PENDDING_SIGS == 2

\* the signal numbers sent and configured in the model
Signos == {SIGKILL, SIGUSR1, SIGCONT, SIGSTOP, SIGRT33}

Codes == {SI_USER, SI_KERNEL}

MASK_SIG_KERNEL_ONLY == {SIGKILL, SIGSTOP}

\* SIGCONT, SIGCHLD, SIGWINCH, SIGURG
MASK_SIG_KERNEL_IGNORE == {SIGCONT, 17, 28, 23}

\* SIGSTOP, SIGTSTP, SIGTTIN, SIGTTOU
MASK_SIG_KERNEL_STOP == {SIGSTOP, 20, 21, 22}

\* SIGSEGV, SIGBUS, SIGILL, SIGTRAP, SIGFPE, SIGSYS
MASK_SIG_SYNCHRONOUS == {11, 7, 4, 5, 8, 31}

\* ThreadState bit sets
INTERRUPTIBLE == {"INTERRUPTIBLE"}

KILLABLE == {"WAKEKILL", "INTERRUPTIBLE", "RUNNING"}

EXIT == {"EXIT"}

NoInfo == [sig |-> 0, code |-> 0]

NoTid == 0

\* the address of a user handler function
UserHandler == 4096

\* Option<SigHandler>::None
NoHandler == 0 - 1

\* SignalSet::min_sig: leading_zeros() + 1 of the non-empty u64 bitmask, whose
\* highest set bit is the one of the largest member m (index m - 1)
min_sig(s) ==
    LET m == CHOOSE x \in s : \A y \in s : y <= x
        lz == (NSIG - 1) - (m - 1)
    IN  lz + 1

legacy(sig) == sig <= SIGRTMIN

\* SigAction::default and SigAction::handler
DefaultAction == [handler |-> NoHandler, flags |-> {}, mask |-> {}]

handler(act) == IF act.handler = NoHandler THEN SIG_HANDLER_DFL ELSE act.handler

\* SigHandler::as_usize transmutes self, the reference to the handler, and so
\* yields the address the handler is stored at: non-null and 8-aligned,
\* whatever the handler is
SigHandlerAddr == 8

as_usize(h) == SigHandlerAddr

is_ignored(h, sig) ==
    \/ as_usize(h) = SIG_HANDLER_IGN
    \/ (as_usize(h) = SIG_HANDLER_DFL /\ sig \in MASK_SIG_KERNEL_IGNORE)

is_default(h) == as_usize(h) = SIG_HANDLER_DFL

sig_fatal(sig, act) ==
    /\ sig \notin (MASK_SIG_KERNEL_IGNORE \cup MASK_SIG_KERNEL_STOP)
    /\ is_default(handler(act))

\* the signal numbers whose slot of the 64-slot array the model keeps: those
\* of Signos and the ones that follow them
SigSlots == Signos \cup {s + 1 : s \in Signos}

\* process::Signal::action and action_mut: the slot with index sig - 1, kept
\* under the number sig; the slots outside SigSlots are never replaced
action(ps, sig) == IF sig \in DOMAIN ps.actions THEN ps.actions[sig] ELSE DefaultAction

\* replace_action with the index of action: sig - 1
replace_action_SameSlot(ps, sig, sa) ==
    [ps |-> [ps EXCEPT !.actions[sig] = sa], old |-> ps.actions[sig]]

\* process::Signal::replace_action: mem::replace on the slot with index sig,
\* which is the slot action reads for the number sig + 1
replace_action(ps, sig, sa) ==
    [ps |-> [ps EXCEPT !.actions[sig + 1] = sa], old |-> ps.actions[sig + 1]]

QueuedSigs(p) == {p.queue[i].sig : i \in DOMAIN p.queue}

PendingNew == [signal |-> {}, queue |-> <<>>]

RemoveAt(q, i) == SubSeq(q, 1, i - 1) \o SubSeq(q, i + 1, Len(q))

\* the cursor loop of flush_by_mask with the cursor on element i:
\* remove_current leaves the cursor on the successor, or on the ghost element
\* after the last one, from where move_next goes to the front of the list
RECURSIVE FlushQueue(_, _, _)
FlushQueue(q, i, mask) ==
    IF i > Len(q) THEN q
    ELSE IF q[i].sig \in mask
         THEN LET q2 == RemoveAt(q, i)
              IN  IF i > Len(q2) THEN FlushQueue(q2, 1, mask)
                  ELSE FlushQueue(q2, i + 1, mask)
         ELSE FlushQueue(q, i + 1, mask)

flush_by_mask(p, mask) ==
    IF p.signal \cap mask = {} THEN p
    ELSE [signal |-> p.signal \ mask, queue |-> FlushQueue(p.queue, 1, mask)]

\* Pending::push when the queue makes room for the new entry by dropping its oldest
push_DropOldest(p, info) ==
    IF Len(p.queue) >= SIGPENDING_QUEUE_CAP
    THEN [ok |-> TRUE, p |-> [p EXCEPT !.queue = Append(Tail(@), info)]]
    ELSE [ok |-> TRUE, p |-> [p EXCEPT !.queue = Append(@, info)]]

push(p, info) ==
    IF Len(p.queue) >= SIGPENDING_QUEUE_CAP THEN [ok |-> FALSE, p |-> p]
    ELSE [ok |-> TRUE,
          p  |-> [signal |-> IF info.sig \in p.signal THEN p.signal \cup {info.sig}
                             ELSE p.signal,
                  queue  |-> Append(p.queue, info)]]

\* the scan of dequeue_signal with the cursor x on element i; k and u tell
\* whether target_kernel_info_opt and target_info_opt are set.  Both are set to
\* the address of x itself, so they name the cursor wherever it ends.
RECURSIVE DequeueScan(_, _, _, _)
DequeueScan(q, target, i, acc) ==
    IF i > Len(q) THEN [acc EXCEPT !.i = i]
    ELSE IF q[i].sig # target THEN DequeueScan(q, target, i + 1, acc)
    ELSE IF q[i].code > SI_USER
         THEN IF ~acc.k THEN DequeueScan(q, target, i + 1, [acc EXCEPT !.k = TRUE])
              ELSE [acc EXCEPT !.only = FALSE, !.i = i]
         ELSE IF ~acc.u THEN DequeueScan(q, target, i + 1, [acc EXCEPT !.u = TRUE])
              ELSE DequeueScan(q, target, i + 1, [acc EXCEPT !.only = FALSE])

\* dequeue_signal(pending, mask) -> (Option<Info>, only_one); panic when
\* current() of a cursor on the ghost element is unwrapped
dequeue_signal(p, mask) ==
    LET s0 == p.signal \ mask
        none == [p |-> p, info |-> NoInfo, only_one |-> FALSE, panic |-> FALSE]
    IN  IF s0 = {} THEN none
        ELSE
        LET sync == s0 \cap MASK_SIG_SYNCHRONOUS
            target_sig == min_sig(IF sync # {} THEN sync ELSE s0)
            r == DequeueScan(p.queue, target_sig, 1,
                             [i |-> 1, k |-> FALSE, u |-> FALSE, only |-> TRUE])
            only_one_target == r.only /\ ~(r.k /\ r.u)
            on_elem == r.i <= Len(p.queue)
            q2 == IF on_elem THEN RemoveAt(p.queue, r.i) ELSE p.queue
        IN  IF ~r.k /\ ~r.u THEN none
            ELSE IF only_one_target /\ ~on_elem THEN [none EXCEPT !.panic = TRUE]
            ELSE [p |-> [signal |-> IF only_one_target THEN p.signal \ {p.queue[r.i].sig}
                                    ELSE p.signal,
                         queue  |-> q2],
                  info |-> IF on_elem /\ r.i <= Len(q2) THEN q2[r.i] ELSE NoInfo,
                  only_one |-> only_one_target,
                  panic |-> FALSE]

has_pendding_sigs(thread_pending_signal, ps) ==
    /\ thread_pending_signal \ ps.blocked = {}
    /\ ps.shared_pending.signal \ ps.blocked = {}

\* flags & bit
FlagsAnd(flags, bit) == IF HasFlag(flags, bit) THEN bit ELSE 0

SetMin(s) == CHOOSE x \in s : \A y \in s : x <= y

\* the state the signal code works on; fail becomes "panic" or "hang"
SigSt0 ==
    [ps |-> proc_signal, th |-> threads, wk |-> wakers, woken |-> sig_woken, fail |-> "ok"]

\* waker.wake(): the executor is asked to poll the thread
wake(st, t) == [st EXCEPT !.woken = @ \cup {t}]

\* ThreadInner::try_wake_up_state: s.contains(origin_state)
try_wake_up_state(st, t, s) == IF st.th[t].state \subseteq s THEN wake(st, t) ELSE st

\* flush_by_mask on the shared queue and on the queue of every thread of proc.threads
FlushAll(st, mask) ==
    [st EXCEPT !.ps.shared_pending = flush_by_mask(@, mask),
               !.th = [t \in DOMAIN st.th |->
                          IF t \in proc.threads
                          THEN [st.th[t] EXCEPT !.sig_pending = flush_by_mask(@, mask)]
                          ELSE st.th[t]]]

do_sig_stop(st, t) ==
    IF HasFlag(st.th[t].flags, FLAGS_SIG_STOPPING) THEN st
    ELSE [st EXCEPT !.wk = @ \cup {t},
                    !.th[t].flags = FlagsAnd(@, FLAGS_SIG_STOPPING)]

\* for_each over a set of threads; the calls touch disjoint state
RECURSIVE StopAll(_, _)
StopAll(st, ts) ==
    IF ts = {} THEN st
    ELSE LET t == SetMin(ts) IN StopAll(do_sig_stop(st, t), ts \ {t})

sig_ignored(sig, ps, is_init_proc) ==
    IF sig \in ps.blocked \/ sig \in ps.real_blocked THEN FALSE
    ELSE IF is_init_proc /\ sig \in MASK_SIG_KERNEL_ONLY THEN TRUE
    ELSE IF /\ "UNKILLABLE" \in ps.flags
            /\ is_default(handler(action(ps, sig)))
            /\ sig \notin MASK_SIG_KERNEL_ONLY
         THEN TRUE
    ELSE is_ignored(handler(action(ps, sig)), sig)

\* the SIGCONT branch of prepare_signal for one thread
ContThread(st, t) ==
    LET st1 == [st EXCEPT !.th[t].sig_pending = flush_by_mask(@, MASK_SIG_KERNEL_STOP),
                          !.th[t].flags = ClearFlag(@, FLAGS_SIG_STOPPING)]
    IN  IF t \in st.wk THEN wake(st1, t) ELSE st1

RECURSIVE ContAll(_, _)
ContAll(st, ts) ==
    IF ts = {} THEN st
    ELSE LET t == SetMin(ts) IN ContAll(ContThread(st, t), ts \ {t})

\* prepare_signal -> the state and whether the signal is to be delivered
prepare_signal(st, sig) ==
    LET st1 == IF sig \in MASK_SIG_KERNEL_STOP THEN FlushAll(st, {SIGCONT})
               ELSE IF sig = SIGCONT
                    THEN ContAll([st EXCEPT !.ps.shared_pending =
                                      flush_by_mask(@, MASK_SIG_KERNEL_STOP)],
                                 proc.threads)
               ELSE st
    IN  [st |-> st1, deliver |-> ~sig_ignored(sig, st1.ps, proc.id = 1)]

\* wants_signal_fn with thread_is_stop_fn = wakers.contains
wants_signal(st, sig, t) ==
    IF sig \in st.ps.blocked THEN FALSE
    ELSE IF sig = SIGKILL THEN TRUE
    ELSE IF t \in st.wk THEN FALSE
    ELSE ~HasFlag(st.th[t].flags, FLAGS_SIG_STOPPING)

\* the store both branches of signal_wakeup end with
WakeupFlags(st, t) ==
    IF ~HasFlag(st.th[t].flags, FLAGS_SIG_STOPPING)
    THEN [st EXCEPT !.th[t].flags = FlagsAnd(@, FLAGS_SIG_STOPPING)]
    ELSE st

RECURSIVE WakeKillable(_, _)
WakeKillable(st, ts) ==
    IF ts = {} THEN st
    ELSE LET t == SetMin(ts)
         IN  WakeKillable(WakeupFlags(try_wake_up_state(st, t, KILLABLE), t), ts \ {t})

\* thread_iter(threads, current_tid): the tids it yields, which come in
\* ascending order, and whether it starts over for ever once exhausted
thread_iter(ts, current_tid) ==
    [endless |-> current_tid = NoTid,
     yields  |-> IF current_tid # NoTid /\ ts # {} /\ SetMin(ts) = current_tid
                 THEN ts \ {current_tid} ELSE ts]

signal_wakeup(st, sig, to) ==
    LET it == thread_iter(proc.threads, st.ps.current_target)
        w == {t \in it.yields : wants_signal(st, sig, t)}
        group == to.kind = "ProcGroup"
        target == IF group THEN (IF w = {} THEN NoTid ELSE SetMin(w))
                  ELSE IF wants_signal(st, sig, to.tid) THEN to.tid ELSE NoTid
        st1 == IF group /\ target # NoTid THEN [st EXCEPT !.ps.current_target = target]
               ELSE st
    IN  IF group /\ it.endless /\ w = {} THEN [st EXCEPT !.fail = "hang"]
        ELSE IF target = NoTid THEN st1
        ELSE IF sig_fatal(sig, action(st1.ps, sig)) /\ sig \notin st1.ps.real_blocked
             THEN WakeKillable(st1, proc.threads)
        ELSE WakeupFlags(try_wake_up_state(st1, target,
                             IF sig = SIGKILL THEN KILLABLE ELSE INTERRUPTIBLE), target)

\* send_signal -> the state and Ok or Err (queue overflow)
send_signal(st, sig, info, to) ==
    LET pr == prepare_signal(st, sig)
        st1 == pr.st
        group == to.kind = "ProcGroup"
        pending == IF group THEN st1.ps.shared_pending ELSE st1.th[to.tid].sig_pending
        pu == push(pending, info)
        st2 == IF group THEN [st1 EXCEPT !.ps.shared_pending = pu.p]
               ELSE [st1 EXCEPT !.th[to.tid].sig_pending = pu.p]
    IN  IF ~pr.deliver THEN [st |-> st1, res |-> "Ok"]
        ELSE IF legacy(sig) /\ sig \in pending.signal THEN [st |-> st1, res |-> "Ok"]
        ELSE IF ~pu.ok THEN [st |-> st1, res |-> "Err"]
        ELSE [st |-> signal_wakeup(st2, sig, to), res |-> "Ok"]

\* get_signal: the store that clears FLAGS_HAS_PENDDING_SIGS
ClearHasPending(st, t, only_one) ==
    IF /\ only_one
       /\ ~has_pendding_sigs(st.th[t].sig_pending.signal, st.ps)
       /\ HasFlag(st.th[t].flags, FLAGS_HAS_PENDDING_SIGS)
    THEN [st EXCEPT !.th[t].flags = ClearFlag(@, FLAGS_HAS_PENDDING_SIGS)]
    ELSE st

\* get_signal: SA_RESETHAND
ResetHand(st, act, sig) ==
    IF ~is_default(handler(act)) /\ "RESETHAND" \in act.flags
    THEN [st EXCEPT !.ps.actions[sig].handler = SIG_HANDLER_DFL]
    ELSE st

GetRet(st, poll, act, info) == [st |-> st, poll |-> poll, act |-> act, info |-> info]

\* one round of the loop of get_signal once info was dequeued; "Continue"
\* stands for the continue statements
GetSignalTake(st, t, info, act) ==
    IF is_ignored(handler(act), info.sig) THEN GetRet(st, "Continue", act, NoInfo)
    ELSE IF "UNKILLABLE" \in st.ps.flags /\ info.sig \notin MASK_SIG_KERNEL_ONLY
         THEN GetRet(ResetHand(st, act, info.sig), "Continue", act, NoInfo)
    ELSE IF info.sig \in MASK_SIG_KERNEL_STOP
         THEN GetRet(StopAll(ResetHand(st, act, info.sig), proc.threads), "Pending",
                     act, NoInfo)
    ELSE GetRet(ResetHand(st, act, info.sig), "Ready", act, info)

\* the dequeue of one round: the thread's own queue, then the shared one
GetSignalDequeue(st, t, d1) ==
    IF d1.panic \/ d1.info # NoInfo
    THEN [d1 EXCEPT !.p = [st EXCEPT !.th[t].sig_pending = d1.p]]
    ELSE LET d2 == dequeue_signal(st.ps.shared_pending, st.ps.blocked)
         IN  [d2 EXCEPT !.p = [st EXCEPT !.th[t].sig_pending = d1.p,
                                         !.ps.shared_pending = d2.p]]

\* Signal::get_signal -> the state, Poll ("Panic" for a kernel panic) and the
\* signal to deliver (NoInfo for Ready(None))
RECURSIVE get_signal(_, _)
get_signal(st, t) ==
    LET d == GetSignalDequeue(st, t, dequeue_signal(st.th[t].sig_pending, st.ps.blocked))
        r == GetSignalTake(ClearHasPending(d.p, t, d.only_one), t, d.info,
                           action(d.p.ps, d.info.sig))
    IN  IF d.panic THEN GetRet(st, "Panic", DefaultAction, NoInfo)
        ELSE IF d.info = NoInfo THEN GetRet(d.p, "Ready", DefaultAction, NoInfo)
        ELSE IF r.poll = "Continue" THEN get_signal(r.st, t)
        ELSE r

\* do_sigaction -> the state and the old action, or Err for SIGKILL and SIGSTOP
do_sigaction(st, sig, new_act) ==
    LET act == [new_act EXCEPT !.mask = @ \ {SIGKILL, SIGSTOP}]
        r == replace_action(st.ps, sig, act)
        st1 == [st EXCEPT !.ps = r.ps]
    IN  IF sig \in MASK_SIG_KERNEL_ONLY THEN [st |-> st, ok |-> FALSE, old |-> DefaultAction]
        ELSE [st  |-> IF is_ignored(handler(act), sig) THEN FlushAll(st1, {sig}) ELSE st1,
              ok  |-> TRUE,
              old |-> r.old]

\* largest thread id handed out
MaxTid == 3

ThreadNew(state) ==
    [flags |-> 0, sig_pending |-> PendingNew, state |-> state, sig_ctx |-> NoInfo,
     fut |-> "RunUser"]

\* the init process made by Proc::new(init = true) with its main thread, spawned
SigIdle ==
    /\ proc = [id |-> 1, threads |-> {1}]
    /\ proc_signal = [actions |-> [s \in SigSlots |-> DefaultAction],
                      shared_pending |-> PendingNew,
                      blocked |-> {}, real_blocked |-> {},
                      current_target |-> NoTid,
                      flags |-> {"UNKILLABLE"}]
    /\ threads = [t \in {1} |-> ThreadNew(INTERRUPTIBLE)]
    /\ wakers = {}
    /\ sig_woken = {1}
    /\ sig_state = "ok"
    /\ sig_ret = [op |-> "none"]
    /\ sig_hist = [stop_due |-> FALSE, ran_user |-> FALSE, steps |-> 0]

SigCommit(st, ret, hist) ==
    /\ proc_signal' = st.ps
    /\ threads' = st.th
    /\ wakers' = st.wk
    /\ sig_woken' = st.woken
    /\ sig_state' = st.fail
    /\ sig_ret' = ret
    /\ sig_hist' = [hist EXCEPT !.steps = @ + 1]
    /\ UNCHANGED <<proc, exceptSig>>

\* the action new ignores sig, by its handler
Ignores(h, sig) ==
    h = SIG_HANDLER_IGN \/ (h = SIG_HANDLER_DFL /\ sig \in MASK_SIG_KERNEL_IGNORE)

SigActInputs ==
    {[handler |-> SIG_HANDLER_DFL, flags |-> {}, mask |-> {}],
     [handler |-> SIG_HANDLER_IGN, flags |-> {}, mask |-> {}],
     [handler |-> UserHandler, flags |-> {}, mask |-> {SIGKILL, SIGUSR1}],
     [handler |-> UserHandler, flags |-> {"RESETHAND"}, mask |-> {}]}

SendTos == {[kind |-> "ProcGroup", tid |-> NoTid]} \cup
           {[kind |-> "Thread", tid |-> t] : t \in 1 .. MaxTid}

\* send_signal(sig, info, send_to) to the process or to its thread
SigSendSignal(sig, code, to) ==
    /\ sig_state = "ok"
    /\ to.kind = "Thread" => to.tid \in DOMAIN threads
    /\ LET r == send_signal(SigSt0, sig, [sig |-> sig, code |-> code], to)
       IN  SigCommit(r.st, [op |-> "send_signal", sig |-> sig, res |-> r.res],
                     IF sig = SIGCONT
                     THEN [sig_hist EXCEPT !.stop_due = FALSE, !.ran_user = FALSE]
                     ELSE sig_hist)

\* do_sigaction(thread, sig, act)
SigSigaction(sig, act) ==
    /\ sig_state = "ok"
    /\ LET r == do_sigaction(SigSt0, sig, act)
       IN  SigCommit(r.st,
                     [op |-> "sigaction", sig |-> sig, ok |-> r.ok, old |-> r.old,
                      ignores |-> Ignores(act.handler, sig)],
                     sig_hist)

\* handle_signal: the context is saved and rewritten to enter the handler; a
\* syscall in flight moves into the saved context
HandleSignal(st, t, info) ==
    IF info # NoInfo THEN [st EXCEPT !.th[t].sig_ctx = info, !.th[t].fut = "RunUser"]
    ELSE st

\* the RunUser arm of poll: user mode is entered and left by the trap
RunUser(st, t, trap) ==
    LET st1 == [st EXCEPT !.th[t].state = INTERRUPTIBLE,
                          !.th[t].fut = IF trap = "Syscall" THEN "Syscall" ELSE "RunUser"]
    IN  IF trap = "Timer" THEN wake(st1, t) ELSE st1

PollRet(t, res, user, info) ==
    [op |-> "poll", tid |-> t, res |-> res, run_user |-> user, delivered |-> info.sig,
     after_ignore |-> IF sig_ret.op = "sigaction" /\ sig_ret.ok /\ sig_ret.ignores
                      THEN sig_ret.sig ELSE 0]

PollHist(due, user) ==
    [sig_hist EXCEPT !.stop_due = due, !.ran_user = @ \/ (due /\ user)]

\* poll from handle_signal on
PollDeliver(g, t, sys, trap, due) ==
    IF g.poll = "Panic"
    THEN SigCommit([g.st EXCEPT !.fail = "panic"], PollRet(t, "Panic", FALSE, NoInfo),
                   PollHist(due, FALSE))
    ELSE IF g.poll = "Pending"
         THEN SigCommit(g.st, PollRet(t, "Pending", FALSE, NoInfo), PollHist(due, FALSE))
    ELSE IF g.info = NoInfo /\ g.st.th[t].fut = "Syscall" /\ sys = "pending"
         THEN SigCommit(g.st, PollRet(t, "Pending", FALSE, NoInfo), PollHist(due, FALSE))
    ELSE SigCommit(RunUser(HandleSignal(g.st, t, g.info), t, trap),
                   PollRet(t, "Pending", TRUE, g.info), PollHist(due, TRUE))

\* ThreadFuture::poll of a thread the executor took from its ready queue.
\* sys: whether a syscall future in flight completes; trap: how user mode is
\* left (Timer, or Syscall for a syscall that blocks)
SigPoll(t, sys, trap) ==
    /\ sig_state = "ok"
    /\ t \in DOMAIN threads /\ t \in sig_woken
    /\ IF threads[t].state = EXIT
       THEN SigCommit([SigSt0 EXCEPT !.woken = @ \ {t}],
                      PollRet(t, "Ready", FALSE, NoInfo), sig_hist)
       ELSE IF HasFlag(threads[t].flags, FLAGS_SIG_STOPPING)
            THEN SigCommit([SigSt0 EXCEPT !.woken = @ \ {t}],
                           PollRet(t, "Pending", FALSE, NoInfo), sig_hist)
       ELSE PollDeliver(get_signal([SigSt0 EXCEPT !.woken = @ \ {t}], t), t, sys, trap,
                        sig_hist.stop_due \/
                            {SIGSTOP} = (QueuedSigs(threads[t].sig_pending) \cup
                                         QueuedSigs(proc_signal.shared_pending)))

\* sys_fork by thread t: Thread::fork and Proc::fork make the child process,
\* which the model follows from here on
SigFork(t) ==
    /\ sig_state = "ok"
    /\ t \in DOMAIN threads
    /\ t + 1 <= MaxTid
    /\ proc' = [id |-> t, threads |-> {}]
    /\ proc_signal' = [actions |-> proc_signal.actions,
                       shared_pending |-> PendingNew,
                       blocked |-> {}, real_blocked |-> {},
                       current_target |-> NoTid,
                       flags |-> {}]
    /\ threads' = [x \in {t + 1} |-> ThreadNew(threads[t].state)]
    /\ sig_woken' = sig_woken \cup {t + 1}
    /\ sig_ret' = [op |-> "fork", tid |-> t + 1]
    /\ sig_hist' = [sig_hist EXCEPT !.stop_due = FALSE, !.ran_user = FALSE]
    /\ UNCHANGED <<wakers, sig_state, exceptSig>>

NextSig ==
    \/ /\ sig_hist.steps < MaxSigSteps
       /\ \/ \E sig \in Signos, code \in Codes, to \in SendTos : SigSendSignal(sig, code, to)
          \/ \E sig \in Signos, act \in SigActInputs : SigSigaction(sig, act)
          \/ \E t \in 1 .. MaxTid, sys \in {"ready", "pending"}, trap \in {"Timer", "Syscall"} :
                 SigPoll(t, sys, trap)
    \/ \E t \in 1 .. MaxTid : SigFork(t)

AllPending == {proc_signal.shared_pending} \cup {threads[t].sig_pending : t \in DOMAIN threads}

\* C1: in every pending set, per-thread or shared, the bitmask contains a
\* signal number exactly when the queue holds an entry with that number.
C1_BitmaskMatchesQueue == \A p \in AllPending : p.signal = QueuedSigs(p)

\* C2: when sigaction(s, act) with an act whose handler ignores s has
\* completed, no entry with sig = s is left in the shared queue or in the queue
\* of any thread, and the poll that follows does not deliver s.
C2_IgnoreDropsPending ==
    /\ (sig_ret.op = "sigaction" /\ sig_ret.ok /\ sig_ret.ignores) =>
           \A p \in AllPending : sig_ret.sig \notin QueuedSigs(p)
    /\ (sig_ret.op = "poll" /\ sig_ret.after_ignore # 0) =>
           sig_ret.delivered # sig_ret.after_ignore

\* C3: once a thread with a SIGSTOP (and nothing else) queued has run signal delivery, every
\* thread of the process has the signal-stopping flag and no poll enters user
\* mode, until SIGCONT is sent to the process.
C3_StopHoldsUntilCont ==
    sig_hist.stop_due =>
        /\ \A t \in DOMAIN threads : HasFlag(threads[t].flags, FLAGS_SIG_STOPPING)
        /\ ~sig_hist.ran_user

RECURSIVE IsSubSeq(_, _)
\* a is b with some of its entries taken out
IsSubSeq(a, b) ==
    IF a = <<>> THEN TRUE
    ELSE IF b = <<>> THEN FALSE
    ELSE IF Head(a) = Head(b) THEN IsSubSeq(Tail(a), Tail(b))
    ELSE IsSubSeq(a, Tail(b))

\* the queue q without its entries for the signals of mask
Flushed(q, mask) == SelectSeq(q, LAMBDA e : e.sig \notin mask)

\* the signals prepare_signal flushes when sig is sent
PrepareFlushes(sig) ==
    IF sig \in MASK_SIG_KERNEL_STOP THEN {SIGCONT}
    ELSE IF sig = SIGCONT THEN MASK_SIG_KERNEL_STOP
    ELSE {}

\* the ways the queue of one pending set may change from q to q2 in a step
\* whose operation ended with the result r
QueueChange(q, q2, r) ==
    \/ q2 = q
    \/ /\ r.op = "send_signal"
       /\ \/ q2 = Flushed(q, PrepareFlushes(r.sig))
          \/ /\ r.res = "Ok"
             /\ Len(q2) <= SIGPENDING_QUEUE_CAP
             /\ \E code \in Codes, base \in {q, Flushed(q, PrepareFlushes(r.sig))} :
                    q2 = Append(base, [sig |-> r.sig, code |-> code])
    \/ /\ r.op = "sigaction" /\ r.ok /\ r.ignores
       /\ q2 = Flushed(q, {r.sig})
    \/ /\ r.op = "poll"
       /\ IsSubSeq(q2, q)
       /\ Len(q2) < Len(q)

C25_SigactionReplacesItsSlot ==
    [][(sig_ret'.op = "sigaction" /\ sig_hist'.steps = sig_hist.steps + 1) =>
          IF sig_ret'.sig \in {SIGKILL, SIGSTOP}
          THEN ~sig_ret'.ok /\ proc_signal'.actions = proc_signal.actions
          ELSE /\ sig_ret'.ok
               /\ sig_ret'.old = action(proc_signal, sig_ret'.sig)
               /\ \E new \in SigActInputs :
                      action(proc_signal', sig_ret'.sig) =
                          [new EXCEPT !.mask = @ \ {SIGKILL, SIGSTOP}]
               /\ \A s \in SigSlots \ {sig_ret'.sig} :
                      action(proc_signal', s) = action(proc_signal, s)]_vars

\* C26: after a stop signal is sent to the process no SIGCONT is left in the
\* shared pending queue or in the pending queue of any of its threads, and
\* after SIGCONT is sent no stop signal is left in any of those queues.
C26_StopAndContFlushEachOther ==
    sig_ret.op = "send_signal" =>
        /\ sig_ret.sig \in MASK_SIG_KERNEL_STOP =>
               \A p \in AllPending : SIGCONT \notin QueuedSigs(p)
        /\ sig_ret.sig = SIGCONT =>
               \A p \in AllPending : QueuedSigs(p) \cap MASK_SIG_KERNEL_STOP = {}

\* C27: no pending queue holds two entries for the same legacy signal number,
\* and a send_signal of a legacy signal whose number was already queued in
\* its target set returned Ok (real-time signals may be queued several times).
C27_LegacySignalsMerge ==
    \A p \in AllPending : \A i, j \in DOMAIN p.queue :
        (i # j /\ p.queue[i].sig = p.queue[j].sig) => ~legacy(p.queue[i].sig)

\* C28: send_signal to a process group always returns: the scan of
\* signal_wakeup for a thread that wants the signal ends, with no target when
\* no thread wants the signal or the thread map of the process is empty.
C28_GroupScanEnds == sig_state # "hang"

\* the entries of the pending set p that carry the signal sig
EntriesOf(p, sig) == SelectSeq(p.queue, LAMBDA info : info.sig = sig)

\* C40: for the UNKILLABLE process (init), a poll delivers no signal but
\* SIGKILL and SIGSTOP, and a send_signal of any other signal whose handler
\* is default is treated as ignored: no entry for it is queued, for the
\* process or for a thread, so it never reaches a handler
C40_UnkillableTakesKernelOnly ==
    []["UNKILLABLE" \in proc_signal.flags =>
          /\ \A t \in 1 .. MaxTid, sys \in {"ready", "pending"}, trap \in {"Timer", "Syscall"} :
                SigPoll(t, sys, trap) =>
                    sig_ret'.delivered \in {0} \cup MASK_SIG_KERNEL_ONLY
          /\ \A sig \in Signos \ MASK_SIG_KERNEL_ONLY, code \in Codes, to \in SendTos :
                (/\ SigSendSignal(sig, code, to)
                 /\ handler(action(proc_signal, sig)) = SIG_HANDLER_DFL
                 /\ sig \notin proc_signal.blocked \cup proc_signal.real_blocked) =>
                    /\ EntriesOf(proc_signal.shared_pending, sig)
                           = EntriesOf(proc_signal'.shared_pending, sig)
                    /\ \A x \in DOMAIN threads :
                          EntriesOf(threads[x].sig_pending, sig)
                              = EntriesOf(threads'[x].sig_pending, sig)]_vars

\* The precondition of C15 (SIGCONT to a process whose threads are
\* signal-stopped) in the model: a thread is signal-stopped when it has the
\* signal-stopping flag or a waker in SIGNAL.wakers.  No reachable state has
\* such a thread: get_signal never dequeues a stop signal (the bitmask of a
\* pending set stays empty) and do_sig_stop masks the flags instead of
\* setting the flag.
SigNeverStopped ==
    /\ wakers = {}
    /\ \A t \in DOMAIN threads : ~HasFlag(threads[t].flags, FLAGS_SIG_STOPPING)

(***************************************************************************)
(* crates/naive_fs maybe_dirty.rs, blk_device.rs, ram_disk.rs: a value     *)
(* with a dirty flag and a disk address, synced to a block device over a   *)
(* RamDisk.  The value is a little-endian u16 (a #[byte_struct_le] field). *)
(***************************************************************************)
\* RawSuperBlk.blk_size_log2
BlkSzLog2 == 3

\* BlkDevice.blk_size in bytes
BlkSz == 2 ^ BlkSzLog2

\* RawSuperBlk.blks_count: the disk holds blocks 0 .. NumBlks - 1
NumBlks == 8

\* RamDisk.capacity in bytes
DiskCapacity == NumBlks * BlkSz

\* the u16 values a MaybeDirty holds
MdValues == {0, 1, 258}

\* Addr {blk_id, offset_of_blk}: inside the disk, across its end, and past it
MdAddrs == {[blk_id |-> 0, offset_of_blk |-> 0],
            [blk_id |-> NumBlks - 1, offset_of_blk |-> BlkSz - 2],
            [blk_id |-> NumBlks - 1, offset_of_blk |-> BlkSz - 1],
            [blk_id |-> NumBlks, offset_of_blk |-> 0]}

NoBlkDevice == [made |-> FALSE, read_only |-> FALSE, disk |-> [i \in 0 .. (DiskCapacity - 1) |-> 0]]

NoMd == [live |-> FALSE, inner |-> 0, is_dirty |-> FALSE, addr |-> [blk_id |-> 0, offset_of_blk |-> 0]]

abs_offset(addr, blk_size) == blk_size * addr.blk_id + addr.offset_of_blk

to_bytes(v) == <<v % 256, (v \div 256) % 256>>

from_bytes(bytes) == bytes[1] + 256 * bytes[2]

\* RamDisk::write_at: [res, data]; res is "ok", "err" or "panic" (copy_from_slice
\* on slices of different lengths)
RamWriteAt(data, offset, src) ==
    LET end_pos == Min(offset + Len(src), DiskCapacity) IN
    IF offset >= DiskCapacity THEN [res |-> "err", data |-> data]
    ELSE IF end_pos - offset # Len(src) THEN [res |-> "panic", data |-> data]
    ELSE [res |-> "ok",
          data |-> [i \in DOMAIN data |->
                        IF offset <= i /\ i < end_pos THEN src[i - offset + 1] ELSE data[i]]]

\* RamDisk::read_at into a buffer of len bytes: [res, buf]
RamReadAt(data, offset, len) ==
    LET end_pos == Min(offset + len, DiskCapacity) IN
    IF offset >= DiskCapacity THEN [res |-> "err", buf |-> <<>>]
    ELSE IF end_pos - offset # len THEN [res |-> "panic", buf |-> <<>>]
    ELSE [res |-> "ok", buf |-> [i \in 1 .. len |-> data[offset + i - 1]]]

\* BlkDevice::write_at
BlkWriteAt(bd, addr, buf) ==
    IF bd.read_only THEN [res |-> "err", data |-> bd.disk]
    ELSE RamWriteAt(bd.disk, abs_offset(addr, BlkSz), buf)

\* BlkDevice::write_value_at
write_value_at(bd, addr, val) == BlkWriteAt(bd, addr, to_bytes(val))

\* BlkDevice::read_val_at
read_val_at(bd, addr) ==
    LET r == RamReadAt(bd.disk, abs_offset(addr, BlkSz), 2) IN
    [res |-> r.res, val |-> IF r.res = "ok" THEN from_bytes(r.buf) ELSE 0]

set_dirty(m, dirty) == [m EXCEPT !.is_dirty = dirty]

MaybeDirtyNew(addr, inner) == [live |-> TRUE, inner |-> inner, is_dirty |-> FALSE, addr |-> addr]

\* DerefMut::deref_mut followed by the store of v through the reference
deref_mut_NoMark(m, v) == [m EXCEPT !.inner = v]

deref_mut(m, v) == [set_dirty(m, TRUE) EXCEPT !.inner = v]

NoDirt == [derefd |-> FALSE, marked |-> FALSE]

MdIdle ==
    /\ blk_device = NoBlkDevice
    /\ md = NoMd
    /\ md_fut = "none"
    /\ md_state = "ok"
    /\ md_ret = [op |-> "none"]
    /\ md_hist = NoDirt

MdReady == md_state = "ok" /\ blk_device.made /\ md_fut = "none"

\* BlkDevice::new(disk, blk_size, read_only) over a fresh RamDisk
MdOpen(read_only) ==
    /\ md_state = "ok" /\ ~blk_device.made
    /\ blk_device' = [NoBlkDevice EXCEPT !.made = TRUE, !.read_only = read_only]
    /\ md_ret' = [op |-> "open"]
    /\ UNCHANGED <<md, md_fut, md_state, md_hist, exceptMd>>

\* NaiveFs::create_inode_inner: MaybeDirty::new, then set_dirty(true)
MdCreate(addr, v) ==
    /\ MdReady /\ ~md.live
    /\ md' = set_dirty(MaybeDirtyNew(addr, v), TRUE)
    /\ md_hist' = [derefd |-> FALSE, marked |-> TRUE]
    /\ md_ret' = [op |-> "create"]
    /\ UNCHANGED <<blk_device, md_fut, md_state, exceptMd>>

\* Inode::load: read_val_at(addr), then MaybeDirty::new
MdLoad(addr) ==
    LET r == read_val_at(blk_device, addr) IN
    /\ MdReady /\ ~md.live
    /\ md' = IF r.res = "ok" THEN MaybeDirtyNew(addr, r.val) ELSE md
    /\ md_state' = IF r.res = "panic" THEN "panic" ELSE md_state
    /\ md_hist' = NoDirt
    /\ md_ret' = [op |-> "load", ok |-> r.res = "ok"]
    /\ UNCHANGED <<blk_device, md_fut, exceptMd>>

\* a store through the mutable reference of the value
MdDerefMut(v) ==
    /\ MdReady /\ md.live
    /\ md' = deref_mut(md, v)
    /\ md_hist' = [md_hist EXCEPT !.derefd = TRUE]
    /\ md_ret' = [op |-> "deref_mut"]
    /\ UNCHANGED <<blk_device, md_fut, md_state, exceptMd>>

\* Drop for MaybeDirty: asserts that the value is clean
MdDrop ==
    /\ MdReady /\ md.live
    /\ md_state' = IF md.is_dirty THEN "panic" ELSE md_state
    /\ md' = NoMd
    /\ md_hist' = NoDirt
    /\ md_ret' = [op |-> "drop"]
    /\ UNCHANGED <<blk_device, md_fut, exceptMd>>

\* MaybeDirty::sync: makes the future, in state Init
MdSync ==
    /\ MdReady /\ md.live
    /\ md_fut' = "Init"
    /\ md_ret' = [op |-> "sync_start", was_dirty |-> md.is_dirty,
                  before |-> blk_device.disk]
    /\ UNCHANGED <<blk_device, md, md_state, md_hist, exceptMd>>

SyncRet(ok, wrote) ==
    [op |-> "sync", ok |-> ok, wrote |-> wrote, was_dirty |-> md_ret.was_dirty,
     before |-> md_ret.before]

\* the poll of the WriteValueAtFut, whose disk is ready, pending, or fails
PollWrite(outcome) ==
    LET w == write_value_at(blk_device, md.addr, md.inner) IN
    IF outcome = "pending" /\ ~blk_device.read_only
    THEN /\ md_fut' = "BDWriteValueAt"
         /\ md_ret' = [md_ret EXCEPT !.op = "sync_pending"]
         /\ UNCHANGED <<blk_device, md, md_state, md_hist>>
    ELSE IF outcome = "error" \/ w.res = "err"
    THEN /\ md_fut' = "none"
         /\ md_ret' = SyncRet(FALSE, FALSE)
         /\ UNCHANGED <<blk_device, md, md_state, md_hist>>
    ELSE IF w.res = "panic"
    THEN /\ md_fut' = "none"
         /\ md_state' = "panic"
         /\ md_ret' = SyncRet(FALSE, FALSE)
         /\ UNCHANGED <<blk_device, md, md_hist>>
    ELSE /\ blk_device' = [blk_device EXCEPT !.disk = w.data]
         /\ md' = set_dirty(md, FALSE)
         /\ md_fut' = "none"
         /\ md_hist' = NoDirt
         /\ md_ret' = SyncRet(TRUE, TRUE)
         /\ UNCHANGED md_state

\* MaybeDirtySyncFut::poll: Init, InnerSync (the inner value's sync is ready
\* with Ok at once), BDWriteValueAt
MdSyncPoll(outcome) ==
    /\ md_state = "ok" /\ md_fut # "none"
    /\ IF md_fut = "Init" /\ ~md.is_dirty
       THEN /\ md_fut' = "none"
            /\ md_ret' = SyncRet(TRUE, FALSE)
            /\ UNCHANGED <<blk_device, md, md_state, md_hist>>
       ELSE PollWrite(outcome)
    /\ UNCHANGED exceptMd

NextMd ==
    \/ \E ro \in BOOLEAN : MdOpen(ro)
    \/ \E addr \in MdAddrs, v \in MdValues : MdCreate(addr, v)
    \/ \E addr \in MdAddrs : MdLoad(addr)
    \/ \E v \in MdValues : MdDerefMut(v)
    \/ MdDrop
    \/ MdSync
    \/ \E outcome \in {"ready", "pending", "error"} : MdSyncPoll(outcome)

DiskBytes(addr) == RamReadAt(blk_device.disk, abs_offset(addr, BlkSz), 2)

\* C11 as stated: the value is dirty exactly when it has been mutably
\* dereferenced since its last successful sync; a sync writes iff the value
\* was dirty, and after a successful sync the value is clean and the bytes on
\* disk at its address are its bytes.
C11_DirtyIffDerefMut ==
    /\ md.live => (md.is_dirty <=> md_hist.derefd)
    /\ md_ret.op = "sync" =>
           /\ md_ret.wrote => md_ret.was_dirty
           /\ md_ret.ok => /\ md_ret.wrote <=> md_ret.was_dirty
                           /\ ~md.is_dirty
                           /\ DiskBytes(md.addr) = [res |-> "ok", buf |-> to_bytes(md.inner)]

\* C11 amended: the value is dirty exactly when it has been mutably
\* dereferenced, or marked with set_dirty(true) by the code that made it,
\* since its last successful sync; a sync writes iff the value was dirty and
\* writes nowhere else, and after a successful sync the value is clean and the
\* bytes on disk at its address are its bytes.
C11_DirtyIffModified ==
    /\ md.live => (md.is_dirty <=> (md_hist.derefd \/ md_hist.marked))
    /\ md_ret.op = "sync" =>
           /\ md_ret.wrote => md_ret.was_dirty
           /\ ~md_ret.wrote => blk_device.disk = md_ret.before
           /\ md_ret.ok => /\ md_ret.wrote <=> md_ret.was_dirty
                           /\ ~md.is_dirty
                           /\ DiskBytes(md.addr) = [res |-> "ok", buf |-> to_bytes(md.inner)]

\* a loaded value was changed through deref_mut and synced: the disk changed
C11_Witness ==
    /\ md_ret.op = "sync" /\ md_ret.ok /\ md_ret.wrote
    /\ blk_device.disk # md_ret.before
    /\ md.inner = 258 /\ md.addr.blk_id = NumBlks - 1
    /\ ~md.is_dirty


(***************************************************************************)
(* crates/bitmap on its own: bitmaps of several sizes under sequences of   *)
(* test_and_set calls, single ones and the loops of the crate's tests.     *)
(***************************************************************************)
\* the largest nbits given to Bitmap::new
MaxNBits == 128

BmSizes == {0, 1, U64_BITS, U64_BITS + 1, MaxNBits}

BmOffsets == {0, 1, 2, U64_BITS - 1, U64_BITS, U64_BITS + 1, MaxNBits - 1, MaxNBits}

\* the number of bits the words hold
BmBits(bm) == Len(bm) * U64_BITS

\* for i in lo..hi { bitmap.test_and_set(i, val); }: every word gets the masks
\* of the offsets of the range that fall into it
SetRange(bm, lo, hi, val) ==
    [idx \in DOMAIN bm |->
        LET masks == {bit_mask(offset) :
                         offset \in {o \in lo .. (hi - 1) : (o \div U64_BITS) + 1 = idx}}
        IN  IF val THEN bm[idx] \cup masks ELSE bm[idx] \ masks]

BmIdle ==
    /\ bitmap = BitmapNew(0)
    /\ bm_bits = {}
    /\ bm_ret = [op |-> "none"]

BmNew(nbits) ==
    /\ bm_ret.op # "panic"
    /\ bitmap' = BitmapNew(nbits)
    /\ bm_bits' = {}
    /\ bm_ret' = [op |-> "new", nbits |-> nbits]
    /\ UNCHANGED exceptBm

\* test_and_set(offset, val); an offset past the last word panics (index out of bounds)
BmTestAndSet(offset, val) ==
    /\ bm_ret.op # "panic"
    /\ IF offset >= BmBits(bitmap)
       THEN /\ bm_ret' = [op |-> "panic"]
            /\ UNCHANGED <<bitmap, bm_bits>>
       ELSE /\ bitmap' = TestAndSet(bitmap, offset, val)
            /\ bm_bits' = IF val THEN bm_bits \cup {offset} ELSE bm_bits \ {offset}
            /\ bm_ret' = [op |-> "test_and_set", old |-> BitmapTest(bitmap, offset)]
    /\ UNCHANGED exceptBm

\* the loop of tests::bitmap_find_next_zero: test_and_set(i, val) for i in lo..hi
BmSetRange(lo, hi, val) ==
    /\ bm_ret.op # "panic"
    /\ lo < hi /\ hi <= BmBits(bitmap)
    /\ bitmap' = SetRange(bitmap, lo, hi, val)
    /\ bm_bits' = IF val THEN bm_bits \cup (lo .. (hi - 1)) ELSE bm_bits \ (lo .. (hi - 1))
    /\ bm_ret' = [op |-> "set_range"]
    /\ UNCHANGED exceptBm

BmTest(offset) ==
    /\ bm_ret.op # "panic"
    /\ offset < BmBits(bitmap)
    /\ bm_ret' = [op |-> "test", offset |-> offset, res |-> BitmapTest(bitmap, offset)]
    /\ UNCHANGED <<bitmap, bm_bits, exceptBm>>

BmFindNextZero(offset) ==
    /\ bm_ret.op # "panic"
    /\ offset < BmBits(bitmap) \/ offset = 0
    /\ bm_ret' = [op |-> "find_next_zero", offset |-> offset,
                  res |-> find_next_zero(bitmap, offset, NoneIdx)]
    /\ UNCHANGED <<bitmap, bm_bits, exceptBm>>

NextBm ==
    \/ \E nbits \in BmSizes : BmNew(nbits)
    \/ \E offset \in BmOffsets, val \in BOOLEAN : BmTestAndSet(offset, val)
    \/ \E lo \in {0, U64_BITS}, hi \in BmOffsets, val \in BOOLEAN : BmSetRange(lo, hi, val)
    \/ \E offset \in BmOffsets : BmTest(offset)
    \/ \E offset \in {0} : BmFindNextZero(offset)

\* the offsets of the bitmap whose last written value is 0 (or that were never written)
BmClear == (0 .. (BmBits(bitmap) - 1)) \ bm_bits

INODE_DIRECT_BLK_COUNT == 3

\* BlkId::BYTES_LEN: a block id is a big-endian u16
BLKID_BYTES_LEN == 2

\* the block ids SuperBlk::create_blank allocates for the file system itself
ReservedBlkIds == 1

\* consts::NAIVE_FS_ROOT_INO: create_blank allocates the inode ids up to it
NAIVE_FS_ROOT_INO == 2

\* RawSuperBlk.prealloc_blocks as NaiveFs::create_blank sets it
PREALLOC_BLOCKS == 1

\* number of inode operations in a behaviour
MaxInoSteps == 4

\* LenOfBlk::End; LenOfBlk::Len(n) is n
LenEnd == 0 - 1

\* what a reader's buffer holds before the read
Filler == 255

direct_blk_len == BlkSz * INODE_DIRECT_BLK_COUNT

\* offsets and lengths of the reads and writes
InoOffsets == {0, BlkSz - 2, BlkSz, direct_blk_len - BlkSz, direct_blk_len, direct_blk_len + BlkSz}

InoLens == {1, BlkSz, BlkSz + 2, 2 * BlkSz}

MaxFileLen == direct_blk_len + 4 * BlkSz

div_by(dividend) == dividend \div BlkSz

mod_by(dividend) == dividend % BlkSz

div_round_up_by(dividend) == (dividend + (BlkSz - 1)) \div BlkSz

blk_ids_count_pre_blk == BlkSz \div BLKID_BYTES_LEN

NoInode ==
    [live |-> FALSE, inode_id |-> 0, size |-> 0, links_count |-> 0,
     direct_blks |-> [i \in 1 .. INODE_DIRECT_BLK_COUNT |-> 0], indirect_blk |-> 0,
     is_dirty |-> FALSE, lock |-> "free", owned |-> {}]

RECURSIVE AllocN(_, _, _)
\* (0..n).map_while(|_| allocator.alloc()).collect(): [a, ids]
AllocN(a, n, ids) ==
    IF n = 0 THEN [a |-> a, ids |-> ids]
    ELSE IF AllocatorAlloc(a).ret = 0 THEN [a |-> AllocatorAlloc(a).a, ids |-> ids]
    ELSE AllocN(AllocatorAlloc(a).a, n - 1, Append(ids, AllocatorAlloc(a).ret))

\* the state an inode operation works on
InoSt0 ==
    [raw |-> inode, ba |-> blk_id_allocator, disk |-> blk_device.disk, fail |-> "ok"]

Failed(s, how) == [s EXCEPT !.fail = how]

\* one alloc_blk().ok_or(NoSpace)? for the slot i of blks
AllocSlot(s, blks, i, r) ==
    IF r.ret = 0 THEN [s |-> Failed([s EXCEPT !.ba = r.a], "err"), blks |-> blks]
    ELSE [s |-> [s EXCEPT !.ba = r.a, !.raw.owned = @ \cup {r.ret}],
          blks |-> [blks EXCEPT ![i] = r.ret]]

RECURSIVE AllocZeros(_, _, _, _)
\* the OR_ALLOC loop: a block is allocated for every zero id of blks, until
\* the allocator has none left: [s, blks, alloced]
AllocZeros(s, blks, i, alloced) ==
    IF i > Len(blks) \/ s.fail # "ok" THEN [s |-> s, blks |-> blks, alloced |-> alloced]
    ELSE IF blks[i] # 0 THEN AllocZeros(s, blks, i + 1, alloced)
    ELSE AllocZeros(AllocSlot(s, blks, i, AllocatorAlloc(s.ba)).s,
                    AllocSlot(s, blks, i, AllocatorAlloc(s.ba)).blks, i + 1, TRUE)

\* the slice of direct_blks and the length of its last block
DirectRange(offset, len) ==
    LET nth_blk == div_by(offset)
        n_blks == div_round_up_by(mod_by(offset) + len)
    IN  IF nth_blk + n_blks >= INODE_DIRECT_BLK_COUNT
        THEN [lo |-> nth_blk, hi |-> INODE_DIRECT_BLK_COUNT, last_blk_len |-> LenEnd]
        ELSE [lo |-> nth_blk, hi |-> nth_blk + n_blks,
              last_blk_len |-> IF n_blks = 1 THEN len ELSE mod_by(offset + len)]

\* raw.direct_blks = direct_blks.blks, when a block was allocated
DirectStore(a, r) ==
    IF a.alloced /\ a.s.fail = "ok"
    THEN [a.s EXCEPT !.raw.direct_blks =
             [i \in 1 .. INODE_DIRECT_BLK_COUNT |->
                 IF r.lo < i /\ i <= r.hi THEN a.blks[i - r.lo] ELSE @[i]],
          !.raw.is_dirty = TRUE]
    ELSE a.s

DirectFound(a, r, offset) ==
    [s |-> DirectStore(a, r), blks |-> a.blks, first_blk_offset |-> mod_by(offset),
     last_blk_len |-> r.last_blk_len]

find_in_direct_blks(s, or_alloc, offset, len) ==
    LET r == DirectRange(offset, len)
        slice == SubSeq(s.raw.direct_blks, r.lo + 1, r.hi)
    IN  DirectFound(IF or_alloc THEN AllocZeros(s, slice, 1, FALSE)
                    ELSE [s |-> s, blks |-> slice, alloced |-> FALSE], r, offset)

\* BlkId::to_bytes of every id of a slice, as write_slice lays them out
BlkIdsToBytes(blks) ==
    [i \in 1 .. (BLKID_BYTES_LEN * Len(blks)) |->
        IF i % 2 = 1 THEN blks[(i + 1) \div 2] \div 256 ELSE blks[i \div 2] % 256]

\* BlkId::from_bytes of every chunk of the bytes read by read_vec
BytesToBlkIds(bytes) ==
    [i \in 1 .. (Len(bytes) \div BLKID_BYTES_LEN) |-> bytes[2 * i - 1] * 256 + bytes[2 * i]]

\* the indirect block of the inode, allocated when it has none and OR_ALLOC
IndirectBlk(s, or_alloc, r) ==
    IF s.raw.indirect_blk # 0 THEN [s |-> s, empty |-> FALSE]
    ELSE IF ~or_alloc THEN [s |-> s, empty |-> TRUE]
    ELSE IF r.ret = 0 THEN [s |-> Failed([s EXCEPT !.ba = r.a], "err"), empty |-> FALSE]
    ELSE [s |-> [s EXCEPT !.ba = r.a, !.raw.indirect_blk = r.ret, !.raw.is_dirty = TRUE,
                          !.raw.owned = @ \cup {r.ret}],
          empty |-> FALSE]

\* n_blks of find_in_indirect_blks; blk_ids_count_pre_blk - nth_blk is a u32
\* subtraction: below zero it panics or wraps, and -1 stands for the panic
IndirectCount(offset, len) ==
    LET want == div_round_up_by(mod_by(offset) + len)
        avail == blk_ids_count_pre_blk - div_by(offset)
    IN  IF avail >= 0 THEN Min(want, avail)
        ELSE IF overflow_checks THEN 0 - 1 ELSE want

\* write_slice of the ids, when a block was allocated
IndirectStore(a, addr, w) ==
    IF a.alloced /\ a.s.fail = "ok"
    THEN [s |-> Failed([a.s EXCEPT !.disk = w.data], IF w.res = "ok" THEN "ok" ELSE w.res),
          blks |-> a.blks]
    ELSE [s |-> a.s, blks |-> a.blks]

IndirectAlloc(a, addr) ==
    IndirectStore(a, addr,
                  BlkWriteAt([blk_device EXCEPT !.disk = a.s.disk], addr, BlkIdsToBytes(a.blks)))

\* read_vec of n_blks ids at addr, resize, and the OR_ALLOC loop
IndirectIds(s, or_alloc, addr, r) ==
    IF r.res # "ok" THEN [s |-> Failed(s, r.res), blks |-> <<>>]
    ELSE IF or_alloc THEN IndirectAlloc(AllocZeros(s, BytesToBlkIds(r.buf), 1, FALSE), addr)
    ELSE [s |-> s, blks |-> BytesToBlkIds(r.buf)]

IndirectFound(f, offset, len, n_blks) ==
    [s |-> f.s, blks |-> f.blks, first_blk_offset |-> mod_by(offset),
     last_blk_len |-> IF n_blks = 1 THEN len ELSE mod_by(offset + len)]

IndirectRead(s, or_alloc, offset, len, addr, n_blks) ==
    IF n_blks < 0
    THEN [s |-> Failed(s, "panic"), blks |-> <<>>, first_blk_offset |-> 0, last_blk_len |-> LenEnd]
    ELSE IndirectFound(IndirectIds(s, or_alloc, addr,
                                   RamReadAt(s.disk, abs_offset(addr, BlkSz),
                                             n_blks * BLKID_BYTES_LEN)),
                       offset, len, n_blks)

IndirectWith(i, or_alloc, offset, len) ==
    IF i.empty \/ i.s.fail # "ok"
    THEN [s |-> i.s, blks |-> <<>>, first_blk_offset |-> 0, last_blk_len |-> LenEnd]
    ELSE IndirectRead(i.s, or_alloc, offset, len,
                      [blk_id |-> i.s.raw.indirect_blk,
                       offset_of_blk |-> div_by(offset) * BLKID_BYTES_LEN],
                      IndirectCount(offset, len))

find_in_indirect_blks(s, or_alloc, offset, len) ==
    IndirectWith(IndirectBlk(s, or_alloc, AllocatorAlloc(s.ba)), or_alloc, offset, len)

\* the number of ids of blks before its first zero
LeadingIds(blks) ==
    CHOOSE n \in 0 .. Len(blks) :
        /\ \A i \in 1 .. n : blks[i] # 0
        /\ n = Len(blks) \/ blks[n + 1] = 0

\* what BlksRange yields: the iteration ends at the first zero id
BlksRange(b) ==
    [i \in 1 .. LeadingIds(b.blks) |->
        [addr |-> [blk_id |-> b.blks[i],
                   offset_of_blk |-> IF i = 1 THEN b.first_blk_offset ELSE 0],
         len |-> IF i = 1 THEN (IF Len(b.blks) = 1 THEN b.last_blk_len ELSE LenEnd)
                 ELSE IF i = Len(b.blks) THEN b.last_blk_len ELSE LenEnd]]

\* Blk::len
BlkLen(blk) == IF blk.len = LenEnd THEN BlkSz - blk.addr.offset_of_blk ELSE blk.len

\* the third case of io_blks: direct blocks, then indirect blocks from offset 0
IoBoth(d, n) ==
    IF d.s.fail # "ok" THEN [s |-> d.s, blks |-> <<>>]
    ELSE [s |-> n.s, blks |-> BlksRange(d) \o BlksRange(n)]

IoOne(b) == [s |-> b.s, blks |-> BlksRange(b)]

IoStraddle(d, or_alloc, offset, len) ==
    IoBoth(d, find_in_indirect_blks(d.s, or_alloc, 0, len - (direct_blk_len - offset)))

\* io_blks and the iteration over its result: [s, blks]
io_blks(s, or_alloc, offset, len) ==
    IF offset >= direct_blk_len THEN IoOne(find_in_indirect_blks(s, or_alloc, offset, len))
    ELSE IF offset + len < direct_blk_len
    THEN IoOne(find_in_direct_blks(s, or_alloc, offset, len))
    ELSE IoStraddle(find_in_direct_blks(s, or_alloc, offset, len), or_alloc, offset, len)

\* one turn of the loop of read_at: acc is [res, buf, off, len]
ReadBlk(disk, blk, acc, r) ==
    IF acc.off + BlkLen(blk) > Len(acc.buf) THEN [acc EXCEPT !.res = "panic"]
    ELSE IF r.res # "ok" THEN [acc EXCEPT !.res = r.res]
    ELSE [res |-> "ok",
          buf |-> [j \in 1 .. Len(acc.buf) |->
                      IF acc.off < j /\ j <= acc.off + BlkLen(blk)
                      THEN r.buf[j - acc.off] ELSE acc.buf[j]],
          off |-> acc.off + BlkLen(blk), len |-> acc.len + BlkLen(blk)]

RECURSIVE ReadBlks(_, _, _, _)
ReadBlks(disk, blks, i, acc) ==
    IF i > Len(blks) \/ acc.res # "ok" THEN acc
    ELSE ReadBlks(disk, blks, i + 1,
                  ReadBlk(disk, blks[i], acc,
                          RamReadAt(disk, abs_offset(blks[i].addr, BlkSz), BlkLen(blks[i]))))

ReadLoop(io, len) ==
    IF io.s.fail # "ok" THEN [res |-> io.s.fail, buf |-> <<>>, off |-> 0, len |-> 0]
    ELSE ReadBlks(io.s.disk, io.blks, 1,
                  [res |-> "ok", buf |-> [j \in 1 .. len |-> Filler], off |-> 0, len |-> 0])

\* Inode::read_at into a buffer of buf_len bytes: [res, buf, off, len]
read_at(s, offset, buf_len) ==
    IF offset >= s.raw.size THEN [res |-> "ok", buf |-> <<>>, off |-> 0, len |-> 0]
    ELSE ReadLoop(io_blks(s, FALSE, offset, Min(buf_len, s.raw.size - offset)),
                  Min(buf_len, s.raw.size - offset))

\* one turn of the loop of write_at: acc is [res, disk, off, len]
WriteBlk(blk, buf, acc, w) ==
    IF acc.off + BlkLen(blk) > Len(buf) THEN [acc EXCEPT !.res = "panic"]
    ELSE IF w.res # "ok" THEN [acc EXCEPT !.res = w.res]
    ELSE [res |-> "ok", disk |-> w.data, off |-> acc.off + BlkLen(blk),
          len |-> acc.len + BlkLen(blk)]

RECURSIVE WriteBlks(_, _, _, _)
WriteBlks(blks, buf, i, acc) ==
    IF i > Len(blks) \/ acc.res # "ok" THEN acc
    ELSE WriteBlks(blks, buf, i + 1,
                   WriteBlk(blks[i], buf, acc,
                            IF acc.off + BlkLen(blks[i]) > Len(buf)
                            THEN [res |-> "panic", data |-> acc.disk]
                            ELSE BlkWriteAt([blk_device EXCEPT !.disk = acc.disk], blks[i].addr,
                                            SubSeq(buf, acc.off + 1, acc.off + BlkLen(blks[i])))))

\* the end of write_at: the size grows to offset + write_len
WriteEnd(s, offset, w) ==
    [s |-> IF w.res = "ok" /\ offset + w.len > s.raw.size
           THEN [s EXCEPT !.disk = w.disk, !.raw.size = offset + w.len, !.raw.is_dirty = TRUE]
           ELSE [s EXCEPT !.disk = w.disk],
     res |-> w.res, len |-> w.len]

WriteLoop(io, offset, buf) ==
    IF io.s.fail # "ok" THEN [s |-> io.s, res |-> io.s.fail, len |-> 0]
    ELSE WriteEnd(io.s, offset,
                  WriteBlks(io.blks, buf, 1, [res |-> "ok", disk |-> io.s.disk, off |-> 0, len |-> 0]))

\* Inode::write_at: [s, res, len]
write_at(s, offset, buf) == WriteLoop(io_blks(s, TRUE, offset, Len(buf)), offset, buf)

RECURSIVE DeallocN(_, _, _)
\* try_dealloc_n_blks: every id of blk_ids is handed to Allocator::dealloc
DeallocN(a, blk_ids, i) ==
    IF i > Len(blk_ids) THEN a
    ELSE DeallocN(AllocatorDealloc(a, blk_ids[i]).a, blk_ids, i + 1)

\* RwLockReadFuture::poll: try_read fails while a write guard is held
RawTryRead(lock) == lock # "write"

\* the ids unlink hands to try_dealloc_n_blks
UnlinkBlkIds(io, raw) == [i \in 1 .. Len(io.blks) |-> io.blks[i].addr.blk_id] \o <<raw.indirect_blk>>

InoIdle ==
    /\ inode = NoInode
    /\ blk_id_allocator = AllocN(AllocatorNew(NumBlks), ReservedBlkIds, <<>>).a
    /\ inode_id_allocator = AllocN(AllocatorNew(NumBlks), NAIVE_FS_ROOT_INO, <<>>).a
    /\ ino_file = [valid |-> TRUE, data |-> [i \in 0 .. MaxFileLen - 1 |-> 0]]
    /\ ino_state = "run"
    /\ ino_ret = [op |-> "none"]
    /\ ino_steps = 0

InoReady ==
    /\ ino_state = "run"
    /\ blk_device.made
    /\ ino_steps < MaxInoSteps
    /\ ino_steps' = ino_steps + 1

\* create_inode_inner with the ids of try_alloc_n_blks
InoCreated(id, r) ==
    [NoInode EXCEPT !.live = TRUE, !.inode_id = id, !.links_count = 1, !.is_dirty = TRUE,
                    !.direct_blks = [i \in 1 .. INODE_DIRECT_BLK_COUNT |->
                                        IF i <= Len(r.ids) THEN r.ids[i] ELSE 0],
                    !.owned = {r.ids[i] : i \in 1 .. Len(r.ids)}]

\* NaiveFs::create_inode of a regular file
InoCreate ==
    /\ InoReady
    /\ ~inode.live
    /\ LET i == AllocatorAlloc(inode_id_allocator)
           r == AllocN(blk_id_allocator, Max(PREALLOC_BLOCKS, INODE_DIRECT_BLK_COUNT), <<>>)
       IN  /\ inode_id_allocator' = i.a
           /\ IF i.ret = 0
              THEN /\ ino_ret' = [op |-> "create", res |-> "err"]
                   /\ UNCHANGED <<inode, blk_id_allocator>>
              ELSE /\ ino_ret' = [op |-> "create", res |-> "ok"]
                   /\ inode' = InoCreated(i.ret, r)
                   /\ blk_id_allocator' = r.a
    /\ ino_file' = [valid |-> TRUE, data |-> [i \in 0 .. MaxFileLen - 1 |-> 0]]
    /\ UNCHANGED <<blk_device, ino_state, exceptIno>>

\* the file after the first n bytes of buf were written at offset
FileWrite(f, offset, buf, w) ==
    IF w.res # "ok" THEN [f EXCEPT !.valid = FALSE]
    ELSE [f EXCEPT !.data = [i \in 0 .. MaxFileLen - 1 |->
                                IF offset <= i /\ i < offset + w.len THEN buf[i - offset + 1]
                                ELSE @[i]]]

InoWrote(offset, buf, w) ==
    /\ inode' = w.s.raw
    /\ blk_id_allocator' = w.s.ba
    /\ blk_device' = [blk_device EXCEPT !.disk = w.s.disk]
    /\ ino_file' = FileWrite(ino_file, offset, buf, w)
    /\ ino_state' = IF w.res = "panic" THEN "panic" ELSE "run"
    /\ ino_ret' = [op |-> "write_at", res |-> w.res, offset |-> offset, len |-> Len(buf),
                   n |-> w.len, size |-> w.s.raw.size,
                   io |-> io_blks(InoSt0, TRUE, offset, Len(buf)).s.fail,
                   blks |-> io_blks(InoSt0, TRUE, offset, Len(buf)).blks]

\* Inode::write_at of len bytes that no earlier write used
InoWriteAt(offset, len) ==
    /\ InoReady
    /\ inode.live /\ inode.lock = "free"
    /\ InoWrote(offset, [j \in 1 .. len |-> ino_steps + 1],
                write_at(InoSt0, offset, [j \in 1 .. len |-> ino_steps + 1]))
    /\ UNCHANGED <<inode_id_allocator, exceptIno>>

InoRead(offset, len, r) ==
    /\ ino_state' = IF r.res = "panic" THEN "panic" ELSE "run"
    /\ ino_ret' = [op |-> "read_at", res |-> r.res, offset |-> offset, len |-> len,
                   n |-> r.len, buf |-> r.buf, size |-> inode.size]

\* Inode::read_at into a buffer of len bytes
InoReadAt(offset, len) ==
    /\ InoReady
    /\ inode.live /\ inode.lock = "free"
    /\ InoRead(offset, len, read_at(InoSt0, offset, len))
    /\ UNCHANGED <<inode, blk_id_allocator, inode_id_allocator, blk_device, ino_file, exceptIno>>

\* Inode::link
InoLink ==
    /\ InoReady
    /\ inode.live /\ inode.lock = "free"
    /\ inode' = IF inode.links_count # 0
                THEN [inode EXCEPT !.links_count = @ + 1, !.is_dirty = TRUE] ELSE inode
    /\ ino_ret' = [op |-> "link", res |-> "ok"]
    /\ UNCHANGED <<blk_id_allocator, inode_id_allocator, blk_device, ino_file, ino_state,
                   exceptIno>>

\* the rest of unlink once io_blks has the blocks of the file
UnlinkFree(raw, io) ==
    IF io.s.fail # "ok"
    THEN /\ inode' = [raw EXCEPT !.lock = "free"]
         /\ ino_ret' = [op |-> "unlink", res |-> io.s.fail, links |-> 0, before |-> inode]
         /\ ino_state' = IF io.s.fail = "panic" THEN "panic" ELSE "run"
         /\ UNCHANGED <<blk_id_allocator, inode_id_allocator>>
    ELSE /\ inode' = [raw EXCEPT !.lock = "free", !.live = FALSE]
         /\ blk_id_allocator' = DeallocN(blk_id_allocator, UnlinkBlkIds(io, raw), 1)
         /\ inode_id_allocator' = AllocatorDealloc(inode_id_allocator, raw.inode_id).a
         /\ ino_ret' = [op |-> "unlink", res |-> "ok", links |-> 0, before |-> inode]
         /\ ino_state' = "run"

\* unlink with the write guard of raw held: the sync of the raw inode, the
\* return while links remain, and io_blks, whose raw.read() waits for the
\* guard this very future holds
Unlinked(raw) ==
    IF blk_device.read_only
    THEN /\ inode' = [raw EXCEPT !.lock = "free"]
         /\ ino_ret' = [op |-> "unlink", res |-> "err", links |-> raw.links_count,
                        before |-> inode]
         /\ UNCHANGED <<blk_id_allocator, inode_id_allocator, ino_state>>
    ELSE IF raw.links_count # 0
    THEN /\ inode' = [raw EXCEPT !.lock = "free", !.is_dirty = FALSE]
         /\ ino_ret' = [op |-> "unlink", res |-> "ok", links |-> raw.links_count,
                        before |-> inode]
         /\ UNCHANGED <<blk_id_allocator, inode_id_allocator, ino_state>>
    ELSE IF ~RawTryRead(raw.lock)
    THEN /\ inode' = [raw EXCEPT !.is_dirty = FALSE]
         /\ ino_ret' = [op |-> "unlink", res |-> "pending", links |-> 0, before |-> inode]
         /\ UNCHANGED <<blk_id_allocator, inode_id_allocator, ino_state>>
    ELSE UnlinkFree([raw EXCEPT !.is_dirty = FALSE],
                    io_blks([InoSt0 EXCEPT !.raw = raw], FALSE, 0, raw.size))

\* Inode::unlink
InoUnlink ==
    /\ InoReady
    /\ inode.live /\ inode.lock = "free" /\ inode.links_count > 0
    /\ Unlinked([inode EXCEPT !.lock = "write", !.links_count = @ - 1, !.is_dirty = TRUE])
    /\ UNCHANGED <<blk_device, ino_file, exceptIno>>

NextIno ==
    \/ \E read_only \in BOOLEAN : MdOpen(read_only)
    \/ InoCreate
    \/ \E offset \in InoOffsets, len \in InoLens : InoWriteAt(offset, len)
    \/ \E offset \in InoOffsets, len \in InoLens : InoReadAt(offset, len)
    \/ InoLink
    \/ InoUnlink

\* the block ids that the bitmap of the block allocator marks as allocated
AllocatedBlks == {id \in 1 .. NumBlks : BitmapTest(blk_id_allocator.bitmap, id - 1)}

\* C13: read_at returns min(len, size - offset) bytes (none at or past the
\* size), and each byte is the value last written at its offset, or 0x00
\* where nothing was written
C13_ReadAtReturnsWrittenBytes ==
    (ino_ret.op = "read_at" /\ ino_file.valid /\ ino_ret.res # "err") =>
        LET want == IF ino_ret.offset >= ino_ret.size THEN 0
                    ELSE Min(ino_ret.len, ino_ret.size - ino_ret.offset)
        IN  /\ ino_ret.res = "ok"
            /\ ino_ret.n = want
            /\ \A j \in 1 .. want : ino_ret.buf[j] = ino_file.data[ino_ret.offset + j - 1]

\* C20: when unlink brings links_count to zero, every block that was
\* allocated to the inode and the inode id are free afterwards
C20_UnlinkFreesBlocks ==
    (ino_ret.op = "unlink" /\ ino_ret.links = 0 /\ ino_ret.res # "err") =>
        /\ ino_ret.before.owned \cap AllocatedBlks = {}
        /\ ~BitmapTest(inode_id_allocator.bitmap, ino_ret.before.inode_id - 1)

\* C34: a write_at whose byte range ends at or before direct_blk_len (the
\* first N_DIRECT * blksz bytes, the boundary included) leaves an inode that
\* has no indirect block without one
C34_DirectWriteKeepsIndirectUnallocated ==
    [][\A offset \in InoOffsets, len \in InoLens :
          (InoWriteAt(offset, len) /\ offset + len <= direct_blk_len
              /\ inode.indirect_blk = 0) => inode'.indirect_blk = 0]_vars

\* the block id the inode holds for the file block nth_blk: a direct block,
\* or an id of the table in the indirect block
FileBlkId(nth_blk) ==
    IF nth_blk < INODE_DIRECT_BLK_COUNT THEN inode.direct_blks[nth_blk + 1]
    ELSE BytesToBlkIds(RamReadAt(blk_device.disk, BlkSz * inode.indirect_blk, BlkSz).buf)
             [nth_blk - INODE_DIRECT_BLK_COUNT + 1]

RECURSIVE SumBlkLens(_, _)
\* the sum of Blk::len over the first n extents of blks
SumBlkLens(blks, n) == IF n = 0 THEN 0 ELSE SumBlkLens(blks, n - 1) + BlkLen(blks[n])

\* C35: the extents io_blks produces for (offset, len), len > 0, begin at byte
\* offset mod blksz of file block offset div blksz, follow one another in file
\* order (the i-th is the block of file block offset div blksz + i - 1, from
\* its byte 0 after the first), and their lengths sum to len
C35_ExtentsCoverTheRange ==
    (ino_ret.op = "write_at" /\ ino_ret.io = "ok") =>
        /\ Len(ino_ret.blks) > 0
        /\ \A i \in 1 .. Len(ino_ret.blks) :
              /\ ino_ret.blks[i].addr.blk_id = FileBlkId(div_by(ino_ret.offset) + i - 1)
              /\ ino_ret.blks[i].addr.offset_of_blk =
                     (IF i = 1 THEN mod_by(ino_ret.offset) ELSE 0)
        /\ SumBlkLens(ino_ret.blks, Len(ino_ret.blks)) = ino_ret.len

(***************************************************************************)
(* src/proc/thread.rs, src/syscall/mod.rs, src/syscall/proc.rs,            *)
(* src/proc/tid.rs: ThreadFuture::poll step by step (the RunUser, Syscall  *)
(* and Exit arms of its loop), the syscall dispatcher, sys_exit and        *)
(* sys_fork, polled by run_ready_tasks, which holds the tasks lock of the  *)
(* executor for the whole poll.                                            *)
(***************************************************************************)
\* config::MAX_THREAD_ID, 32767 in the source
MAX_THREAD_ID == 3

\* config::THREAD_RESERVED_ID, 255 in the source
THREAD_RESERVED_ID == 1

\* number of run_user rounds in a behaviour
MaxThrSteps == 4

SYS_CLOSE == 57

SYS_READ == 63

SYS_EXIT == 93

SYS_CLONE == 220

UNKNOWM == 0

EBADF == 9

EAGAIN == 11

ENOMEM == 12

ENOSYS == 38

\* the syscall numbers user code puts in a7: a file syscall (SYS_READ stands
\* for the six of them), exit, clone, one of the table without a handler, and
\* one outside the table
SysNums == {SYS_READ, SYS_EXIT, SYS_CLONE, SYS_CLOSE, 1}

\* the saved contexts user code can trap with: {epc, a0, a7}
UserCtxs == [epc : {16, 20}, a0 : {0, 5}, a7 : SysNums]

Traps == {"PageFault", "Syscall", "Interrupt", "Timer", "Other"}

\* scause of a trap from user mode
Causes == {"SupervisorTimer", "SupervisorExternal", "UserEnvCall", "StorePageFault",
           "IllegalInstruction"}

\* user_trap_handler with an arm for the page-fault exceptions
user_trap_handler_PageFault(cause) ==
    CASE cause = "SupervisorTimer" -> "Timer"
      [] cause = "SupervisorExternal" -> "Interrupt"
      [] cause = "UserEnvCall" -> "Syscall"
      [] cause = "StorePageFault" -> "PageFault"
      [] OTHER -> "Other"

\* user_trap_handler: the Trap that run_user returns for scause
user_trap_handler(cause) ==
    CASE cause = "SupervisorTimer" -> "Timer"
      [] cause = "SupervisorExternal" -> "Interrupt"
      [] cause = "UserEnvCall" -> "Syscall"
      [] OTHER -> "Other"

\* what the future of a file syscall does when polled
FsOutcomes ==
    {[res |-> "Pending", val |-> 0], [res |-> "Ok", val |-> 7], [res |-> "Err", val |-> EBADF]}

RUNNING == {"RUNNING"}

SLEEPPING == {"INTERRUPTIBLE", "UNINTERRUPTIBLE", "WAKEKILL"}

\* Thread::new with Proc::new: the main thread of a new process
ThrThreadNew(tid) ==
    [context |-> [epc |-> 16, a0 |-> 0, a7 |-> 0], state |-> INTERRUPTIBLE,
     fut |-> "RunUser", proc |-> [id |-> tid, main_thread |-> tid, threads |-> {tid}]]

\* ThreadIdAllocator::new
TidNew == [last_id |-> 0, free |-> MAX_THREAD_ID, tidmap |-> BitmapNew(MAX_THREAD_ID)]

\* the second half of ThreadIdAllocator::alloc, for an id that was taken
TidAllocNext(a, id, nz1, nz2) ==
    IF nz1 = NoneIdx /\ nz2 = NoneIdx THEN [a |-> a, id |-> 0]
    ELSE [a |-> [a EXCEPT !.tidmap = TestAndSet(@, IF nz1 # NoneIdx THEN nz1 ELSE nz2, TRUE),
                          !.last_id = IF nz1 # NoneIdx THEN nz1 ELSE nz2,
                          !.free = @ - 1],
          id |-> IF nz1 # NoneIdx THEN nz1 ELSE nz2]

TidAllocAt(a, id) ==
    IF BitmapTest(a.tidmap, id)
    THEN TidAllocNext(a, id, find_next_zero(a.tidmap, id, NoneIdx),
                      find_next_zero(a.tidmap, THREAD_RESERVED_ID + 1, NoneIdx))
    ELSE [a |-> [a EXCEPT !.tidmap = TestAndSet(@, id, TRUE), !.last_id = id, !.free = @ - 1],
          id |-> id]

\* ThreadIdAllocator::alloc: the allocator afterwards and the id, 0 for None
TidAlloc(a) ==
    IF a.free = 0 THEN [a |-> a, id |-> 0]
    ELSE TidAllocAt(a, IF a.last_id > MAX_THREAD_ID THEN THREAD_RESERVED_ID ELSE a.last_id + 1)

\* ThreadIdAllocator::dealloc, run by the Drop of ThreadId
TidDealloc(a, id) ==
    [a EXCEPT !.tidmap = TestAndSet(@, id, FALSE), !.free = @ + 1,
              !.last_id = IF @ = id THEN @ - 1 ELSE @]

\* the state the code of a poll works on
ThrSt0 == [thr |-> thr, queue |-> thr_queue, tids |-> thr_tids, kernel |-> thr_kernel]

\* TaskWaker::wake_task: the push panics when the queue is full
ThrWakeTask(st, t, r) ==
    IF r.ok THEN [st EXCEPT !.queue = r.q] ELSE [st EXCEPT !.kernel = "panic"]

is_main_thread(st, t) == t = st.thr[t].proc.id

\* Thread::exit of a thread that is not the main thread, then its waker
ThrExitOther(st, t) ==
    ThrWakeTask([st EXCEPT !.thr[t].state = EXIT], t, QueuePush(st.queue, t))

RECURSIVE ProcExit(_, _)
\* Proc::exit: for_each over the threads of the process that are not its main thread
ProcExit(st, ts) ==
    IF ts = {} THEN st
    ELSE ProcExit(ThrExitOther(st, SetMin(ts)), ts \ {SetMin(ts)})

\* Thread::exit
ThreadExit(st, t) ==
    [(IF is_main_thread(st, t)
      THEN ProcExit(st, {x \in st.thr[t].proc.threads \cap DOMAIN st.thr : ~is_main_thread(st, x)})
      ELSE st) EXCEPT !.thr[t].state = EXIT]

\* sys_exit
sys_exit(st, t) == [st |-> ThreadExit(st, t), res |-> "Ok", val |-> 0]

\* ThreadInner::fork and the Thread that Thread::fork builds around it: the
\* process of the child takes the parent thread as its main thread
ThreadFork(st, t, tid) ==
    [context |-> [st.thr[t].context EXCEPT !.a0 = 0], state |-> st.thr[t].state,
     fut |-> "RunUser", proc |-> [id |-> t, main_thread |-> t, threads |-> {}]]

\* FIFOExecutor::spawn once it has the tasks lock; push(..).map_or(Some(()), |_| None)
SpawnLocked(st, tid, child, r) ==
    IF Cardinality(DOMAIN st.thr) >= QueueSize
    THEN [st |-> [st EXCEPT !.tids = TidDealloc(@, tid)], res |-> "Err", val |-> EAGAIN]
    ELSE IF r.ok
    THEN [st |-> [st EXCEPT !.thr = MapInsert(@, tid, child), !.queue = r.q],
          res |-> "Err", val |-> EAGAIN]
    ELSE [st |-> [st EXCEPT !.thr = MapInsert(@, tid, child)], res |-> "Ok", val |-> tid]

\* spawn(thread_future(new_thread)): the tasks lock is a spin lock, and
\* run_ready_tasks holds it while it polls
ThrSpawn(st, tid, child, locked) ==
    IF locked THEN [st |-> [st EXCEPT !.kernel = "deadlock"], res |-> "Deadlock", val |-> tid]
    ELSE SpawnLocked(st, tid, child, QueuePush(st.queue, tid))

\* sys_fork with the id of tid::alloc; mem_ok: whether borrow_memory succeeds
ForkWith(st, t, a, mem_ok, locked) ==
    IF a.id = 0 THEN [st |-> st, res |-> "Err", val |-> UNKNOWM]
    ELSE IF ~mem_ok THEN [st |-> st, res |-> "Err", val |-> ENOMEM]
    ELSE ThrSpawn([st EXCEPT !.tids = a.a], a.id, ThreadFork(st, t, a.id), locked)

sys_fork(st, t, mem_ok, locked) == ForkWith(st, t, TidAlloc(st.tids), mem_ok, locked)

\* the match of syscall() on the number in a7; the SYS_CLONE arm names
\* sys_fork(thread), an async fn, and is modelled as the awaited call
Dispatch(st, t, fs, mem_ok, locked) ==
    IF st.thr[t].context.a7 = SYS_READ THEN [st |-> st, res |-> fs.res, val |-> fs.val]
    ELSE IF st.thr[t].context.a7 = SYS_EXIT THEN sys_exit(st, t)
    ELSE IF st.thr[t].context.a7 = SYS_CLONE THEN sys_fork(st, t, mem_ok, locked)
    ELSE [st |-> st, res |-> "Err", val |-> ENOSYS]

\* the match on the result of the handler: Err(_) => todo!()
SyscallRet(r, t) ==
    IF r.res = "Ok" THEN [r EXCEPT !.st.thr[t].context.a0 = r.val]
    ELSE IF r.res = "Err" THEN [r EXCEPT !.st.kernel = "panic"]
    ELSE r

\* syscall(thread): [st, res, val]
syscall(st, t, fs, mem_ok, locked) == SyscallRet(Dispatch(st, t, fs, mem_ok, locked), t)

\* the Syscall arm of poll after the future of the syscall was Ready, were
\* the state of the thread not looked at
SyscallArm_NoExit(th) ==
    [th EXCEPT !.fut = "RunUser",
               !.state = IF @ \subseteq SLEEPPING THEN RUNNING ELSE @]

\* the Syscall arm of poll after the future of the syscall was Ready
SyscallArm(th) ==
    IF th.state = EXIT THEN [th EXCEPT !.fut = "Exit"]
    ELSE [th EXCEPT !.fut = "RunUser", !.state = IF @ \subseteq SLEEPPING THEN RUNNING ELSE @]

\* run_ready_tasks after poll returned Ready: the entry is removed, and the
\* ThreadId of a thread that no process keeps as its main thread is dropped
ThrRemove(st, t) ==
    [st EXCEPT !.thr = MapRemove(@, t),
               !.tids = IF \E x \in DOMAIN st.thr : x # t /\ st.thr[x].proc.main_thread = t
                        THEN @ ELSE TidDealloc(@, t)]

ThrIdle ==
    /\ thr = [t \in {1} |-> ThrThreadNew(1)]
    /\ thr_cur = 0
    /\ thr_queue = <<1>>
    /\ thr_tids = TidAlloc(TidNew).a
    /\ thr_kernel = "ok"
    /\ thr_ret = [op |-> "none"]
    /\ thr_hist = [steps |-> 0, user_after_exit |-> FALSE, exited |-> {}]

ThrCommit(st, polled, ret, hist) ==
    /\ thr' = st.thr
    /\ thr_queue' = st.queue
    /\ thr_tids' = st.tids
    /\ thr_kernel' = st.kernel
    /\ thr_cur' = IF st.kernel = "ok" THEN polled ELSE thr_cur
    /\ thr_ret' = ret
    /\ thr_hist' = hist
    /\ UNCHANGED exceptThr

\* run_ready_tasks pops an id and polls its future: the checks at the top of
\* ThreadFuture::poll.  FLAGS_SIG_STOPPING is never set and handle_signal
\* finds no signal to deliver (SigNeverStopped), so both checks fall through
ThrPoll ==
    /\ thr_kernel = "ok" /\ thr_cur = 0 /\ thr_queue # <<>>
    /\ LET t == Head(thr_queue)
           st == [ThrSt0 EXCEPT !.queue = Tail(@)]
       IN  IF t \notin DOMAIN thr
           THEN ThrCommit(st, 0, [op |-> "skip", tid |-> t], thr_hist)
           ELSE IF thr[t].fut = "Exit" \/ thr[t].state = EXIT
           THEN ThrCommit(ThrRemove(st, t), 0,
                          [op |-> "poll", tid |-> t, res |-> "Ready", was_exit |-> TRUE],
                          thr_hist)
           ELSE ThrCommit(st, t, [op |-> "poll", tid |-> t, res |-> "Run", was_exit |-> FALSE],
                          thr_hist)

\* the RunUser arm: user mode runs until it traps with the context ctx and
\* the cause scause; pf_err tells whether handle_page_fault, were it called
\* for the faulting address, returns Err (no free frame)
ThrRunUser(cause, ctx, pf_err) ==
    /\ thr_kernel = "ok" /\ thr_cur # 0 /\ thr[thr_cur].fut = "RunUser"
    /\ thr_hist.steps < MaxThrSteps
    /\ pf_err => cause = "StorePageFault"
    /\ LET t == thr_cur
           trap == user_trap_handler(cause)
           st == [ThrSt0 EXCEPT !.thr[t].context = ctx, !.thr[t].state = INTERRUPTIBLE]
           hist == [thr_hist EXCEPT !.steps = @ + 1,
                                    !.user_after_exit = @ \/ thr[t].state = EXIT]
           ret == [op |-> "run_user", tid |-> t, trap |-> trap, cause |-> cause,
                   pf_err |-> pf_err]
       IN  CASE trap = "Syscall" -> ThrCommit([st EXCEPT !.thr[t].fut = "Syscall"], t, ret, hist)
             \* the Result of handle_page_fault is dropped
             [] trap = "PageFault" -> ThrCommit(st, t, ret, hist)
             [] trap = "Timer" -> ThrCommit(ThrWakeTask(st, t, QueuePush(st.queue, t)), 0, ret, hist)
             [] trap = "Other" -> ThrCommit([st EXCEPT !.kernel = "panic"], t, ret, hist)
             [] OTHER -> ThrCommit(st, t, ret, hist)

ThrSyscalled(t, r, before) ==
    ThrCommit(IF r.res = "Ok" THEN [r.st EXCEPT !.thr[t] = SyscallArm(@)] ELSE r.st,
              IF r.res = "Pending" THEN 0 ELSE t,
              [op |-> "syscall", tid |-> t, num |-> before.a7, res |-> r.res, val |-> r.val,
               before |-> before],
              [thr_hist EXCEPT !.exited = IF r.st.thr[t].state = EXIT THEN @ \cup {t} ELSE @])

\* the Syscall arm: the future of syscall(thread) is polled
ThrSyscall(fs, mem_ok) ==
    /\ thr_kernel = "ok" /\ thr_cur # 0 /\ thr[thr_cur].fut = "Syscall"
    /\ ThrSyscalled(thr_cur, syscall(ThrSt0, thr_cur, fs, mem_ok, thr_cur # 0),
                    thr[thr_cur].context)

\* the Exit arm: poll returns Ready
ThrExitArm ==
    /\ thr_kernel = "ok" /\ thr_cur # 0 /\ thr[thr_cur].fut = "Exit"
    /\ ThrCommit(ThrRemove(ThrSt0, thr_cur), 0,
                 [op |-> "poll", tid |-> thr_cur, res |-> "Ready",
                  was_exit |-> thr[thr_cur].state = EXIT],
                 thr_hist)

\* the waker of a thread whose syscall is pending is invoked by an interrupt,
\* while no poll holds the lock (MutexIrq keeps interrupts off)
ThrWake(t) ==
    /\ thr_kernel = "ok" /\ thr_cur = 0
    /\ t \in DOMAIN thr /\ thr[t].fut = "Syscall"
    /\ Len(thr_queue) = 0
    /\ ThrCommit(ThrWakeTask(ThrSt0, t, QueuePush(thr_queue, t)), 0,
                 [op |-> "wake", tid |-> t], thr_hist)

NextThr ==
    \/ ThrPoll
    \/ \E cause \in Causes, ctx \in UserCtxs, pf_err \in BOOLEAN : ThrRunUser(cause, ctx, pf_err)
    \/ \E fs \in FsOutcomes, mem_ok \in BOOLEAN : ThrSyscall(fs, mem_ok)
    \/ ThrExitArm
    \/ \E t \in 1 .. MAX_THREAD_ID : ThrWake(t)

\* C16: when the future of a syscall is Ready, the kernel runs on, the value
\* or the error code of the handler is in the saved a0 of the thread, and the
\* thread future is in its next state
C16_SyscallResultInA0 ==
    (thr_ret.op = "syscall" /\ thr_ret.res \in {"Ok", "Err"}) =>
        /\ thr_kernel = "ok"
        /\ thr_ret.tid \in DOMAIN thr
        /\ thr[thr_ret.tid].fut \in {"RunUser", "Exit"}
        /\ thr_ret.res = "Ok" => thr[thr_ret.tid].context.a0 = thr_ret.val
        /\ thr_ret.res = "Err" => thr[thr_ret.tid].context.a0 \in {thr_ret.val, 0 - thr_ret.val}

\* C17: a thread whose state is EXIT does not enter user mode again; the
\* syscall that resolved with the state at EXIT left its future in Exit, not
\* in RunUser; and the poll of such a thread returns Ready
C17_ExitedThreadStops ==
    /\ ~thr_hist.user_after_exit
    /\ \A t \in DOMAIN thr : thr[t].state = EXIT => thr[t].fut = "Exit"
    /\ \A t \in thr_hist.exited :
           t \in DOMAIN thr => (thr[t].state = EXIT /\ thr_cur = t)
    /\ (thr_ret.op = "poll" /\ thr_ret.tid \in thr_hist.exited) =>
           (thr_ret.res = "Ready" /\ thr_ret.tid \notin DOMAIN thr)

C17_Witness ==
    /\ thr_ret.op = "poll" /\ thr_ret.res = "Ready" /\ thr_ret.was_exit
    /\ thr_ret.tid \in thr_hist.exited
    /\ thr_ret.tid \notin DOMAIN thr

\* C19: when clone has gone through (it did not fail for want of a thread id
\* or of memory), the child thread exists with the context the parent had at
\* the syscall except for a0 = 0, and the a0 of the parent is the id of the
\* child, which is greater than 0
C19_CloneReturnsTid ==
    (thr_ret.op = "syscall" /\ thr_ret.num = SYS_CLONE /\ thr_ret.res # "Err") =>
        /\ thr_kernel = "ok"
        /\ thr_ret.val > 0
        /\ thr_ret.val \in DOMAIN thr
        /\ thr[thr_ret.val].context = [thr_ret.before EXCEPT !.a0 = 0]
        /\ thr[thr_ret.tid].context = [thr_ret.before EXCEPT !.a0 = thr_ret.val]

\* C30: when user code takes a page fault that handle_page_fault cannot
\* resolve (no frame is free), only the faulting thread is stopped: the kernel
\* runs on, the thread does not go back to user mode and its future is at
\* Exit or has completed.
C30_PageFaultFailureStopsThread ==
    (thr_ret.op = "run_user" /\ thr_ret.cause = "StorePageFault" /\ thr_ret.pf_err) =>
        /\ thr_kernel = "ok"
        /\ thr_ret.tid \in DOMAIN thr => thr[thr_ret.tid].fut = "Exit"

(***************************************************************************)
(* src/crates/sleeplock/src/lib.rs: Mutex and RwLock whose lock futures    *)
(* park the waker of the polling task in a queue, and whose guards wake    *)
(* one parked waker when they are dropped.  A poll is the try of the inner *)
(* lock followed by the push of the waker; a drop is the body of           *)
(* Drop::drop followed by the drop of the inner guard.                     *)
(***************************************************************************)
\* number of tsk that use the lock
NumTasks == 3

\* length of the wakers queue up to which a parked task is polled again
\* without having been woken by a guard
MaxWakers == 2

SlTasks == 1 .. NumTasks

\* the lock futures of each kind of lock
SlModes(kind) == IF kind = "Mutex" THEN {"lock"} ELSE {"read", "write"}

\* try_lock, try_write, try_read of the inner lock
try_fn(lock, mode) ==
    IF mode = "read" THEN lock.writer = 0
    ELSE lock.writer = 0 /\ lock.readers = {}

\* the inner guard that a successful try returns
SlAcquire(lock, t, mode) ==
    IF mode = "read" THEN [lock EXCEPT !.readers = @ \cup {t}]
    ELSE [lock EXCEPT !.writer = t]

\* the drop of the inner guard
SlUnlock(lock, t, mode) ==
    IF mode = "read" THEN [lock EXCEPT !.readers = @ \ {t}]
    ELSE [lock EXCEPT !.writer = 0]

\* Waker::wake_by_ref: the task is queued to be polled again
SlWakeTask(tsk, w) == [tsk EXCEPT ![w].notified = TRUE]

\* Drop::drop of a guard: if let Some(waker) = self.wakers.pop() { waker.wake_by_ref() }
SlDropBody(tsk, wq) ==
    IF wq = <<>> THEN [tasks |-> tsk, wakers |-> wq]
    ELSE [tasks |-> SlWakeTask(tsk, Head(wq)), wakers |-> Tail(wq)]

SlIdle ==
    /\ sl_kind = "none"
    /\ sl_smp = FALSE
    /\ sl_lock = [writer |-> 0, readers |-> {}]
    /\ sl_wakers = <<>>
    /\ sl_task = [t \in SlTasks |-> [st |-> "idle", mode |-> "lock", notified |-> FALSE]]
    /\ sl_run = 0

\* Mutex::new, RwLock::new; smp: the executor runs on more than one hart
SlNew(kind, smp) ==
    /\ sl_kind = "none"
    /\ sl_kind' = kind
    /\ sl_smp' = smp
    /\ UNCHANGED <<sl_lock, sl_wakers, sl_task, sl_run, exceptSl>>

\* task t may take a step: on one hart a poll runs to its end before another
\* task is polled
SlCanStep(t) ==
    /\ sl_kind # "none"
    /\ sl_smp \/ sl_run \in {0, t}

\* the first half of the poll of a lock future, by a task that calls
\* lock(), read() or write(), or by a waiting task that was woken
SlPollTry(t, mode) ==
    /\ SlCanStep(t)
    /\ \/ sl_task[t].st = "idle" /\ mode \in SlModes(sl_kind)
       \/ sl_task[t].st = "waiting" /\ sl_task[t].notified /\ mode = sl_task[t].mode
    /\ IF try_fn(sl_lock, mode)
       THEN /\ sl_lock' = SlAcquire(sl_lock, t, mode)
            /\ sl_task' = [sl_task EXCEPT ![t] = [st |-> "holding", mode |-> mode,
                                                   notified |-> FALSE]]
            /\ sl_run' = 0
       ELSE /\ sl_task' = [sl_task EXCEPT ![t] = [st |-> "try_failed", mode |-> mode,
                                                   notified |-> FALSE]]
            /\ sl_run' = t
            /\ UNCHANGED sl_lock
    /\ UNCHANGED <<sl_kind, sl_smp, sl_wakers, exceptSl>>

\* the second half of a poll that found the lock taken: the waker is pushed
\* and the poll returns Pending
SlPollPush(t) ==
    /\ SlCanStep(t)
    /\ sl_task[t].st = "try_failed"
    /\ sl_wakers' = Append(sl_wakers, t)
    /\ sl_task' = [sl_task EXCEPT ![t].st = "waiting"]
    /\ sl_run' = 0
    /\ UNCHANGED <<sl_kind, sl_smp, sl_lock, exceptSl>>

\* a task whose lock future is pending is woken by something else than a
\* guard of this lock, and its future is polled again
SlOtherWake(t) ==
    /\ sl_kind # "none"
    /\ sl_smp \/ sl_run = 0
    /\ sl_task[t].st = "waiting" /\ ~sl_task[t].notified
    /\ Len(sl_wakers) < MaxWakers
    /\ sl_task' = SlWakeTask(sl_task, t)
    /\ UNCHANGED <<sl_kind, sl_smp, sl_lock, sl_wakers, sl_run, exceptSl>>

\* a woken task that does not wait for the lock is polled
SlPollOther(t) ==
    /\ SlCanStep(t)
    /\ sl_task[t].st \in {"idle", "holding"} /\ sl_task[t].notified
    /\ sl_task' = [sl_task EXCEPT ![t].notified = FALSE]
    /\ UNCHANGED <<sl_kind, sl_smp, sl_lock, sl_wakers, sl_run, exceptSl>>

SlDropped(t, d) ==
    /\ sl_wakers' = d.wakers
    /\ sl_task' = [d.tasks EXCEPT ![t].st = "dropping"]
    /\ sl_run' = t
    /\ UNCHANGED <<sl_kind, sl_smp, sl_lock, exceptSl>>

\* the first half of the drop of a guard: Drop::drop
SlDropWake(t) ==
    /\ SlCanStep(t)
    /\ sl_task[t].st = "holding"
    /\ SlDropped(t, SlDropBody(sl_task, sl_wakers))

\* the second half of the drop of a guard: the field `inner` is dropped,
\* which unlocks the inner lock
SlDropInner(t) ==
    /\ SlCanStep(t)
    /\ sl_task[t].st = "dropping"
    /\ sl_lock' = SlUnlock(sl_lock, t, sl_task[t].mode)
    /\ sl_task' = [sl_task EXCEPT ![t].st = "idle"]
    /\ sl_run' = 0
    /\ UNCHANGED <<sl_kind, sl_smp, sl_wakers, exceptSl>>

NextSl ==
    \/ \E kind \in {"Mutex", "RwLock"}, smp \in BOOLEAN : SlNew(kind, smp)
    \/ \E t \in SlTasks, mode \in {"lock", "read", "write"} : SlPollTry(t, mode)
    \/ \E t \in SlTasks : SlPollPush(t)
    \/ \E t \in SlTasks : SlOtherWake(t)
    \/ \E t \in SlTasks : SlPollOther(t)
    \/ \E t \in SlTasks : SlDropWake(t)
    \/ \E t \in SlTasks : SlDropInner(t)

\* a task sleeps on a lock that nobody holds and nobody is about to take or
\* to release: no guard is left whose drop would wake it
SlAsleepOnFreeLock(t) ==
    /\ sl_task[t].st = "waiting" /\ ~sl_task[t].notified
    /\ sl_lock.writer = 0 /\ sl_lock.readers = {}
    /\ \A u \in SlTasks :
           \/ sl_task[u].st = "idle"
           \/ sl_task[u].st = "waiting" /\ ~sl_task[u].notified

\* C21: no waiter stays asleep while the lock is free: whenever the lock is
\* free and no task is running or queued to run for it, no task whose lock
\* future returned Pending is still waiting for a wake
C21_NoWaiterAsleepOnFreeLock == \A t \in SlTasks : ~SlAsleepOnFreeLock(t)

(***************************************************************************)
(* src/crates/mm/src/memory.rs: the segments of a Memory.  A segment is    *)
(* kept as its addr_range, a Range {start, end} without its end; the page  *)
(* mapper is kept as the set of the pages it maps.                         *)
(***************************************************************************)
\* largest address of a range
MaxAddr == 2

\* Param::PAGE_SIZE of the segments, scaled down
SegPageSize == 2

\* number of segments a Memory holds at most in a behaviour
MaxSegs == 2

\* the ranges of the segments added: empty ones among them
SegRanges == {r \in [start : 0 .. MaxAddr, end : 0 .. MaxAddr] : r.start <= r.end}

\* Range::contains
RangeContains(r, x) == r.start <= x /\ x < r.end

\* the addresses of a Range
RangeSet(r) == {x \in 0 .. MaxAddr : RangeContains(r, x)}

\* the test of check_overlap, were only the start of the new range looked at
Overlaps_StartOnly(segment, addr_range) == RangeContains(segment, addr_range.start)

\* the test of check_overlap on one segment
Overlaps(segment, addr_range) ==
    RangeContains(segment, addr_range.start) \/ RangeContains(addr_range, segment.start)

\* Memory::check_overlap: the first segment that overlaps, kernel segments
\* first; 0 for Ok
check_overlap(ks, us, addr_range) ==
    LET all == ks \o us
        hits == {i \in 1 .. Len(all) : Overlaps(all[i], addr_range)}
    IN  IF hits = {} THEN 0 ELSE SetMin(hits)

\* Segment::page_iter: the pages from the one of start, while the start of
\* the page is not beyond end
SegPagesOf(r) ==
    LET first == (r.start \div SegPageSize) * SegPageSize
        n == IF first > r.end THEN 0 ELSE ((r.end - first) \div SegPageSize) + 1
    IN  [i \in 1 .. n |-> first + (i - 1) * SegPageSize]

\* the number of pages Segment::map maps: one and then NoSpace, or all
SegMapTries == {1, MaxAddr + 1}

\* Segment::map that maps the first k pages and then fails, or maps all
SegMap(pages, r, k) ==
    [pages |-> pages \cup {SegPagesOf(r)[i] : i \in 1 .. Min(k, Len(SegPagesOf(r)))},
     ok |-> k >= Len(SegPagesOf(r))]

RECURSIVE SegUnmapFrom(_, _, _)
\* Segment::unmap from its i-th page on: unmap of a page that is not mapped
\* is an error
SegUnmapFrom(pages, ps, i) ==
    IF i > Len(ps) THEN [pages |-> pages, ok |-> TRUE]
    ELSE IF ps[i] \notin pages THEN [pages |-> pages, ok |-> FALSE]
    ELSE SegUnmapFrom(pages \ {ps[i]}, ps, i + 1)

RECURSIVE UnmapSegs(_, _, _)
\* the unmap of the user segments in order, up to the first error
UnmapSegs(pages, us, i) ==
    IF i > Len(us) THEN [pages |-> pages, ok |-> TRUE]
    ELSE LET u == SegUnmapFrom(pages, SegPagesOf(us[i]), 1)
         IN  IF u.ok THEN UnmapSegs(u.pages, us, i + 1) ELSE u

SegIdle ==
    /\ seg_kernel = <<>>
    /\ seg_user = <<>>
    /\ seg_pages = {}
    /\ seg_ret = [op |-> "none"]

\* what add_kernel_segment and add_user_segment do with the list they push to
SegAdd(op, list, r, k, hit, m) ==
    [list |-> IF hit = 0 /\ m.ok THEN Append(list, r) ELSE list,
     pages |-> IF hit = 0 THEN m.pages ELSE seg_pages,
     ret |-> [op |-> op, range |-> r,
              res |-> IF hit # 0 THEN "AddressOverlap" ELSE IF m.ok THEN "Ok" ELSE "NoSpace"]]

\* Memory::add_kernel_segment
add_kernel_segment(r, k) ==
    /\ LET a == SegAdd("add_kernel_segment", seg_kernel, r, k,
                       check_overlap(seg_kernel, seg_user, r), SegMap(seg_pages, r, k))
       IN  /\ Len(a.list) - Len(seg_kernel) + Len(seg_kernel) + Len(seg_user) <= MaxSegs
           /\ seg_kernel' = a.list
           /\ seg_pages' = a.pages
           /\ seg_ret' = a.ret
    /\ UNCHANGED <<seg_user, exceptSeg>>

\* Memory::add_user_segment
add_user_segment(r, k) ==
    /\ LET a == SegAdd("add_user_segment", seg_user, r, k,
                       check_overlap(seg_kernel, seg_user, r), SegMap(seg_pages, r, k))
       IN  /\ Len(a.list) - Len(seg_user) + Len(seg_kernel) + Len(seg_user) <= MaxSegs
           /\ seg_user' = a.list
           /\ seg_pages' = a.pages
           /\ seg_ret' = a.ret
    /\ UNCHANGED <<seg_kernel, exceptSeg>>

\* Memory::remove_user_segments
remove_user_segments ==
    /\ seg_ret.op # "remove_user_segments"
    /\ LET u == UnmapSegs(seg_pages, seg_user, 1)
       IN  /\ seg_pages' = u.pages
           /\ seg_user' = IF u.ok THEN <<>> ELSE seg_user
           /\ seg_ret' = [op |-> "remove_user_segments", range |-> [start |-> 0, end |-> 0],
                          res |-> IF u.ok THEN "Ok" ELSE "InvalidVirtualAddress"]
    /\ UNCHANGED <<seg_kernel, exceptSeg>>

NextSeg ==
    \/ \E r \in SegRanges, k \in SegMapTries : add_kernel_segment(r, k)
    \/ \E r \in SegRanges, k \in SegMapTries : add_user_segment(r, k)
    \/ remove_user_segments

\* C23: the address ranges of the kernel and user segments of a Memory are
\* pairwise disjoint at all times, and an add whose range shares an address
\* with a segment the Memory holds fails with AddressOverlap and adds nothing
C23_SegmentsDisjoint ==
    /\ [](LET all == seg_kernel \o seg_user
          IN  \A i, j \in 1 .. Len(all) :
                  i # j => RangeSet(all[i]) \cap RangeSet(all[j]) = {})
    /\ [][(/\ seg_ret'.op \in {"add_kernel_segment", "add_user_segment"}
           /\ \E i \in 1 .. Len(seg_kernel \o seg_user) :
                  RangeSet((seg_kernel \o seg_user)[i]) \cap RangeSet(seg_ret'.range) # {})
              => /\ seg_ret'.res = "AddressOverlap"
                 /\ seg_kernel' = seg_kernel /\ seg_user' = seg_user]_segVars

C23_Witness ==
    /\ seg_ret.op = "add_user_segment" /\ seg_ret.res = "AddressOverlap"
    /\ Len(seg_kernel) >= 1 /\ Len(seg_user) >= 1
    /\ \E i \in 1 .. Len(seg_user) : RangeSet(seg_user[i]) \cap RangeSet(seg_ret.range) # {}
    /\ RangeSet(seg_kernel[1]) # {}

(***************************************************************************)
(* src/src/cpu.rs and src/src/spinlock.rs: push_off and pop_off of one     *)
(* hart, and the MutexIrq operations that call them.                       *)
(***************************************************************************)
\* nesting depth explored
MaxNoff == 3

\* number of MutexIrq locks
NumIrqLocks == 2

IrqLocks == 1 .. NumIrqLocks

\* Cpu::push_off, were intena recorded at every level
push_off_EveryLevel(c, s) ==
    [cpu |-> [noff |-> c.noff + 1, intena |-> s], sie |-> FALSE]

\* Cpu::push_off; interrupt::disable clears SIE and returns what it was
push_off(c, s) ==
    [cpu |-> [noff |-> c.noff + 1, intena |-> IF c.noff = 0 THEN s ELSE c.intena],
     sie |-> FALSE]

\* Cpu::pop_off; interrupt::enable sets SIE
pop_off(c, s) ==
    [cpu |-> [c EXCEPT !.noff = @ - 1],
     sie |-> IF c.noff - 1 = 0 /\ c.intena THEN TRUE ELSE s]

CpuIdle ==
    /\ cpu_st = [noff |-> 0, intena |-> FALSE]
    /\ sie = FALSE
    /\ irq_held = {}
    /\ cpu_ret = [op |-> "none"]
    /\ cpu_hist = [pre |-> FALSE, deepest |-> 0]

CpuCommit(r, locks, op) ==
    /\ cpu_st' = r.cpu
    /\ sie' = r.sie
    /\ irq_held' = locks
    /\ cpu_ret' = [op |-> op]
    /\ cpu_hist' = IF cpu_st.noff = 0 /\ op \notin {"pop_off", "drop"}
                   THEN [pre |-> sie, deepest |-> 1]
                   ELSE [cpu_hist EXCEPT !.deepest = IF r.cpu.noff > @ THEN r.cpu.noff ELSE @]
    /\ UNCHANGED exceptCpu

\* cpu::push_off
CpuPushOff ==
    /\ cpu_st.noff < MaxNoff
    /\ CpuCommit(push_off(cpu_st, sie), irq_held, "push_off")

\* cpu::pop_off that matches a push_off which is not the one of a held lock
CpuPopOff ==
    /\ cpu_st.noff > Cardinality(irq_held)
    /\ CpuCommit(pop_off(cpu_st, sie), irq_held, "pop_off")

\* MutexIrq::lock of a lock that is free
IrqLock(l) ==
    /\ cpu_st.noff < MaxNoff
    /\ l \notin irq_held
    /\ CpuCommit(push_off(cpu_st, sie), irq_held \cup {l}, "lock")

\* MutexIrq::try_lock; elsewhere: another hart holds the lock
IrqTryLock(l, elsewhere) ==
    /\ cpu_st.noff < MaxNoff
    /\ LET p == push_off(cpu_st, sie)
       IN  IF l \in irq_held \/ elsewhere
           THEN CpuCommit(pop_off(p.cpu, p.sie), irq_held, "try_lock_none")
           ELSE CpuCommit(p, irq_held \cup {l}, "try_lock_some")

\* the drop of a MutexIrqGuard: the spin guard is dropped, then pop_off
IrqGuardDrop(l) ==
    /\ l \in irq_held
    /\ CpuCommit(pop_off(cpu_st, sie), irq_held \ {l}, "drop")

\* code outside of any push_off changes SIE: interrupt::enable, a trap
CpuSetSie(b) ==
    /\ cpu_st.noff = 0
    /\ sie # b
    /\ sie' = b
    /\ cpu_ret' = [op |-> "set_sie"]
    /\ UNCHANGED <<cpu_st, irq_held, cpu_hist, exceptCpu>>

NextCpu ==
    \/ CpuPushOff
    \/ CpuPopOff
    \/ \E l \in IrqLocks : IrqLock(l)
    \/ \E l \in IrqLocks, elsewhere \in BOOLEAN : IrqTryLock(l, elsewhere)
    \/ \E l \in IrqLocks : IrqGuardDrop(l)
    \/ \E b \in BOOLEAN : CpuSetSie(b)

\* C22: interrupts are disabled whenever the nesting depth is greater than
\* zero (so whenever a MutexIrq is held), and when an operation has brought
\* the depth back to zero, SIE is what it was before the outermost push_off
C22_PushOffPopOffNesting ==
    /\ cpu_st.noff > 0 => ~sie
    /\ irq_held # {} => cpu_st.noff > 0
    /\ (cpu_st.noff = 0 /\ cpu_ret.op \in {"pop_off", "drop", "try_lock_none"}) =>
           sie = cpu_hist.pre

C22_Witness ==
    /\ cpu_st.noff = 0 /\ cpu_ret.op = "drop" /\ sie /\ cpu_hist.pre
    /\ cpu_hist.deepest >= 3

(***************************************************************************)
(* src/src/fs/disk.rs: Disk::read_at over a block device.  PhySpace::calc  *)
(* splits the byte range into a partial head block, full blocks and a      *)
(* partial tail block; ReadAtFut::poll reads them one device future after  *)
(* the other.  An Option<usize> position is kept as the number itself, 0   *)
(* being None: calc stores Some(pos) exactly when pos > 0.                 *)
(***************************************************************************)
\* BlkSize.blk_size_log2 of the device
DiskBlkSizeLog2 == 2

\* blk_count of the device
DiskBlkCount == 2

\* longest buffer handed to read_at
MaxBufLen == 6

\* BlkSize::size
DiskBlkSize == 2 ^ DiskBlkSizeLog2

\* Disk::capacity
DiskCap == DiskBlkSize * DiskBlkCount

\* BlkSize::div_by, div_round_up_by, mod_by of the device
blk_div_by(dividend) == dividend \div DiskBlkSize

blk_div_round_up_by(dividend) == (dividend + (DiskBlkSize - 1)) \div DiskBlkSize

blk_mod_by(dividend) == dividend % DiskBlkSize

NoPhySpace ==
    [none |-> TRUE, start_blk_id |-> 0, end_blk_id |-> 0,
     pos_of_head_partial_blk |-> 0, pos_of_tail_partial_blk |-> 0]

\* the else branch of PhySpace::calc: (end_blk_id, pos_of_tail_partial_blk)
PhySpaceEnd(start_blk_id, pos_of_head_partial_blk, remainder_len) ==
    LET end_blk_id == start_blk_id + blk_div_round_up_by(remainder_len)
    IN  IF end_blk_id >= DiskBlkCount THEN <<DiskBlkCount - 1, 0>>
        ELSE <<end_blk_id, blk_mod_by(remainder_len)>>

\* PhySpace::calc(abs_offset, len, blk_size, blk_count)
PhySpaceCalc(abs_off, len) ==
    LET start_blk_id == blk_div_by(abs_off)
        pos_of_head_partial_blk == blk_mod_by(abs_off)
        len_of_head_partial_blk == DiskBlkSize - pos_of_head_partial_blk
        e == IF len < len_of_head_partial_blk
             THEN <<start_blk_id, pos_of_head_partial_blk + len>>
             ELSE PhySpaceEnd(start_blk_id, pos_of_head_partial_blk,
                              len - len_of_head_partial_blk)
    IN  IF start_blk_id >= DiskBlkCount THEN NoPhySpace
        ELSE [none |-> FALSE, start_blk_id |-> start_blk_id, end_blk_id |-> e[1],
              pos_of_head_partial_blk |-> pos_of_head_partial_blk,
              pos_of_tail_partial_blk |-> e[2]]

has_partial_head_blk(sp) == sp.pos_of_head_partial_blk # 0

has_partial_tail_blk(sp) == sp.pos_of_tail_partial_blk # 0

last_full_blk(sp) == IF has_partial_tail_blk(sp) THEN sp.end_blk_id - 1 ELSE sp.end_blk_id

\* the bytes of block blk_id that read_blk delivers
BlkOf(dev, blk_id) == [i \in 1 .. DiskBlkSize |-> dev[blk_id * DiskBlkSize + (i - 1)]]

\* buf[at .. at + Len(src)] = src, at counted from 0
BufPut(buf, at, src) ==
    [i \in 1 .. Len(buf) |-> IF at < i /\ i <= at + Len(src) THEN src[i - at] ELSE buf[i]]

NoReadAt ==
    [live |-> FALSE, offset |-> 0, read_space |-> NoPhySpace, buf |-> <<>>, read_size |-> 0,
     state |-> "HeadPartialBlk", blk_id |-> 0, fut |-> FALSE]

\* Disk::read_at(offset, buf) with a buffer of len bytes
DiskReadAtFut(offset, len) ==
    [live |-> TRUE, offset |-> offset, read_space |-> PhySpaceCalc(offset, len),
     buf |-> [i \in 1 .. len |-> 0], read_size |-> 0,
     state |-> "HeadPartialBlk", blk_id |-> 0, fut |-> FALSE]

ReadAtOut(f, res, n) == [f |-> f, res |-> res, n |-> n]

\* the loop of ReadAtFut::poll; ready is the number of device futures that
\* complete in this poll, the one polled after them returns Pending
RECURSIVE ReadAtLoop(_, _, _)
ReadAtLoop(f, dev, ready) ==
    LET sp == f.read_space
        room == Len(f.buf) - f.read_size
    IN
    CASE f.state = "HeadPartialBlk" ->
           IF ~f.fut
           THEN IF ~has_partial_head_blk(sp)
                THEN ReadAtLoop([f EXCEPT !.state = "FullBlks", !.blk_id = sp.start_blk_id],
                                dev, ready)
                ELSE ReadAtLoop([f EXCEPT !.fut = TRUE], dev, ready)
           ELSE IF ready = 0 THEN ReadAtOut(f, "Pending", 0)
           ELSE LET blk_data == BlkOf(dev, sp.start_blk_id)
                IN  IF sp.start_blk_id = sp.end_blk_id
                    THEN \* pos_of_tail_partial_blk.unwrap(), then the slices
                         IF \/ ~has_partial_tail_blk(sp)
                            \/ sp.pos_of_tail_partial_blk < sp.pos_of_head_partial_blk
                            \/ sp.pos_of_tail_partial_blk - sp.pos_of_head_partial_blk
                                   > Len(f.buf)
                         THEN ReadAtOut(f, "Panic", 0)
                         ELSE LET src == SubSeq(blk_data, sp.pos_of_head_partial_blk + 1,
                                                sp.pos_of_tail_partial_blk)
                              IN  ReadAtOut([f EXCEPT !.buf = BufPut(@, 0, src)],
                                            "Ready", Len(src))
                    ELSE LET src == SubSeq(blk_data, sp.pos_of_head_partial_blk + 1,
                                           DiskBlkSize)
                         IN  IF Len(src) > Len(f.buf) THEN ReadAtOut(f, "Panic", 0)
                             ELSE ReadAtLoop([f EXCEPT !.buf = BufPut(@, 0, src),
                                                       !.read_size = @ + Len(src),
                                                       !.state = "FullBlks",
                                                       !.blk_id = sp.start_blk_id + 1,
                                                       !.fut = FALSE],
                                             dev, ready - 1)
      [] f.state = "TailPartialBlk" ->
           IF ~f.fut
           THEN IF ~has_partial_tail_blk(sp) THEN ReadAtOut(f, "Ready", f.read_size)
                ELSE ReadAtLoop([f EXCEPT !.fut = TRUE], dev, ready)
           ELSE IF ready = 0 THEN ReadAtOut(f, "Pending", 0)
           ELSE LET src == SubSeq(BlkOf(dev, sp.end_blk_id), 1, sp.pos_of_tail_partial_blk)
                IN  \* copy_from_slice wants slices of one length
                    IF room # Len(src) THEN ReadAtOut(f, "Panic", 0)
                    ELSE ReadAtOut([f EXCEPT !.buf = BufPut(@, f.read_size, src),
                                             !.read_size = @ + Len(src)],
                                   "Ready", f.read_size + Len(src))
      [] OTHER ->
           IF ~f.fut
           THEN IF f.blk_id > last_full_blk(sp)
                THEN ReadAtLoop([f EXCEPT !.state = "TailPartialBlk"], dev, ready)
                ELSE IF room < DiskBlkSize THEN ReadAtOut(f, "Panic", 0)
                ELSE ReadAtLoop([f EXCEPT !.fut = TRUE], dev, ready)
           ELSE IF ready = 0 THEN ReadAtOut(f, "Pending", 0)
           ELSE ReadAtLoop([f EXCEPT !.buf = BufPut(@, f.read_size, BlkOf(dev, f.blk_id)),
                                     !.read_size = @ + DiskBlkSize,
                                     !.blk_id = @ + 1,
                                     !.fut = FALSE],
                           dev, ready - 1)

\* ReadAtFut::poll
ReadAtPoll(f, dev, ready) ==
    IF f.read_space.none THEN ReadAtOut(f, "Ready", 0)
    ELSE ReadAtLoop(f, dev, ready)

\* a device of DiskBlkCount blocks whose bytes all differ, and no read_at
DskIdle ==
    /\ dsk_blks = [i \in 0 .. (DiskCap - 1) |-> i + 1]
    /\ dsk_fut = NoReadAt
    /\ dsk_ret = [op |-> "none"]
    /\ dsk_state = "ok"

\* disk.read_at(offset, buf): the future is made
DiskReadAt(offset, len) ==
    /\ dsk_state = "ok"
    /\ ~dsk_fut.live
    /\ dsk_fut' = DiskReadAtFut(offset, len)
    /\ dsk_ret' = [op |-> "none"]
    /\ UNCHANGED <<dsk_blks, dsk_state, exceptDsk>>

\* the future is polled
DiskPoll(ready) ==
    /\ dsk_state = "ok"
    /\ dsk_fut.live
    /\ LET r == ReadAtPoll(dsk_fut, dsk_blks, ready)
       IN  /\ dsk_fut' = IF r.res = "Pending" THEN r.f ELSE NoReadAt
           /\ dsk_state' = IF r.res = "Panic" THEN "panic" ELSE "ok"
           /\ dsk_ret' = IF r.res = "Pending" THEN [op |-> "pending"]
                         ELSE [op |-> "read_at", res |-> r.res, offset |-> r.f.offset,
                               len |-> Len(r.f.buf), n |-> r.n, buf |-> r.f.buf]
    /\ UNCHANGED <<dsk_blks, exceptDsk>>

NextDsk ==
    \/ \E offset \in 0 .. DiskCap, len \in 1 .. MaxBufLen : DiskReadAt(offset, len)
    \/ \E ready \in 0 .. DiskBlkCount : DiskPoll(ready)

\* the bytes the device holds from offset on, at most len of them
DiskExpected(offset, len) ==
    IF offset >= DiskCap THEN 0 ELSE Min(len, DiskCap - offset)

\* C24: read_at(offset, buf) completes without a panic and returns
\* n = min(len(buf), capacity - offset) bytes (0 from the capacity on), and
\* the first n bytes of buf are the bytes of the device at offset .. offset + n,
\* whatever the alignment of offset and of the length to the block size.
C24_ReadAtReturnsDeviceBytes ==
    /\ dsk_state # "panic"
    /\ dsk_ret.op = "read_at" =>
           /\ dsk_ret.n = DiskExpected(dsk_ret.offset, dsk_ret.len)
           /\ \A i \in 1 .. dsk_ret.n : dsk_ret.buf[i] = dsk_blks[dsk_ret.offset + (i - 1)]

(***************************************************************************)
(* src/crates/mm/src/frame/allocator.rs: BumpAllocator on its own, as the  *)
(* Allocator trait exposes it: init, alloc, alloc_consecutive and dealloc  *)
(* of a frame that alloc handed out and that was not deallocated since.    *)
(***************************************************************************)
\* whole frames between start and the largest end given to init
BumpFrames == 3

\* largest n of alloc_consecutive(n)
MaxConsecutive == 3

\* the ends given to init: on a frame boundary, and one byte past it
BumpEnds == {(f + 1) * PAGE_SIZE + d : f \in 1 .. BumpFrames, d \in {0, 1}}

\* dealloc called k times
RECURSIVE DeallocEach(_, _)
DeallocEach(fa, k) == IF k = 0 THEN fa ELSE DeallocEach(BumpDealloc(fa), k - 1)

\* the loop of alloc_consecutive after the frames in `frames`; on None the
\* frames are deallocated one by one and the empty Vec is returned
RECURSIVE AllocConsecutiveFrom(_, _, _)
AllocConsecutiveFrom(fa, frames, n) ==
    IF Len(frames) = n THEN [fa |-> fa, frames |-> frames]
    ELSE LET a == BumpAlloc(fa)
         IN  IF a.frame = NoFrame
             THEN [fa |-> DeallocEach(fa, Len(frames)), frames |-> <<>>]
             ELSE AllocConsecutiveFrom(a.fa, Append(frames, a.frame), n)

\* BumpAllocator::alloc_consecutive
alloc_consecutive(fa, n) == AllocConsecutiveFrom(fa, <<>>, n)

BumpIdle ==
    /\ bump = BumpNew(0, 0)
    /\ bump_live = {}
    /\ bump_ret = [op |-> "none"]

BumpCommit(fa, live, ret) ==
    /\ bump' = [fa EXCEPT !.log = <<>>]
    /\ bump_live' = live
    /\ bump_ret' = ret
    /\ UNCHANGED exceptBump

\* Allocator::init(start, end), once, on the allocator made by uninit()
BumpInit(end) ==
    /\ bump_ret.op = "none"
    /\ BumpCommit([bump EXCEPT !.start = PAGE_SIZE, !.next = PAGE_SIZE, !.end = end], {},
                  [op |-> "init"])

BumpAllocStep ==
    /\ bump_ret.op # "none" /\ ~bump.crashed
    /\ LET a == BumpAlloc(bump)
       IN  BumpCommit(a.fa, IF a.frame = NoFrame THEN bump_live ELSE bump_live \cup {a.frame},
                      [op |-> "alloc", frame |-> a.frame, before |-> bump])

BumpAllocConsecutive(n) ==
    /\ bump_ret.op # "none" /\ ~bump.crashed
    /\ LET a == alloc_consecutive(bump, n)
       IN  BumpCommit(a.fa, bump_live \cup SeqToSet(a.frames),
                      [op |-> "alloc_consecutive", n |-> n, frames |-> a.frames,
                       before |-> bump])

BumpDeallocStep(f) ==
    /\ bump_ret.op # "none" /\ ~bump.crashed
    /\ f \in bump_live
    /\ BumpCommit(BumpDealloc(bump), bump_live \ {f}, [op |-> "dealloc", frame |-> f])

NextBump ==
    \/ \E end \in BumpEnds : BumpInit(end)
    \/ BumpAllocStep
    \/ \E n \in 1 .. MaxConsecutive : BumpAllocConsecutive(n)
    \/ \E f \in {k * PAGE_SIZE : k \in 1 .. (BumpFrames + 1)} : BumpDeallocStep(f)

\* C31: alloc returns a frame, the one at next, and advances next by the
\* frame size exactly when next + frame_size <= end, so that the last whole
\* frame before end is handed out too; otherwise it returns None and leaves
\* the allocator as it was.
C31_AllocUpToEnd ==
    bump_ret.op = "alloc" =>
        IF bump_ret.before.next + PAGE_SIZE <= bump_ret.before.end
        THEN /\ bump_ret.frame = bump_ret.before.next
             /\ bump.next = bump_ret.before.next + PAGE_SIZE
             /\ bump.allocated = bump_ret.before.allocated + 1
        ELSE /\ bump_ret.frame = NoFrame
             /\ bump = bump_ret.before

\* C32: alloc_consecutive(n) returns n frames with consecutive addresses, or
\* no frame with next and the allocated count as they were before the call.
C32_AllocConsecutiveAllOrNothing ==
    bump_ret.op = "alloc_consecutive" =>
        \/ /\ Len(bump_ret.frames) = bump_ret.n
           /\ \A i \in 1 .. (bump_ret.n - 1) :
                  bump_ret.frames[i + 1] = bump_ret.frames[i] + PAGE_SIZE
        \/ /\ bump_ret.frames = <<>>
           /\ bump.next = bump_ret.before.next
           /\ bump.allocated = bump_ret.before.allocated

(***************************************************************************)
(* src/fs/disk.rs: Disk::write_at, WriteAtFut and WritePartialBlkFut       *)
(***************************************************************************)

\* write_at calls of one behaviour
MaxDiskWrites == 2

\* every group but the device and the write future
exceptDskWr == <<allocVars, dirVars, execVars, memVars, sigVars, devVars, mdVars, bmVars, inoVars, thrVars, slVars, segVars, cpuVars, bumpVars, fdVars>>

exceptFd == <<allocVars, dirVars, execVars, memVars, sigVars, devVars, mdVars, bmVars, inoVars, thrVars, slVars, segVars, cpuVars, dskVars, bumpVars, wrVars>>

\* the device after write_blk(blk_id, data)
BlkPut(dev, blk_id, data) ==
    [i \in DOMAIN dev |->
        IF blk_div_by(i) = blk_id THEN data[blk_mod_by(i) + 1] ELSE dev[i]]

NoWriteAt ==
    [live |-> FALSE, offset |-> 0, write_space |-> NoPhySpace, src |-> <<>>,
     written_size |-> 0, state |-> "HeadPartialBlk", blk_id |-> 0, fut |-> FALSE,
     part |-> "Init", part_src |-> <<>>, blk_data |-> <<>>, before |-> <<>>]

\* Disk::write_at(offset, src); before is the device when the call is made
DiskWriteAtFut(offset, src, dev) ==
    [NoWriteAt EXCEPT !.live = TRUE, !.offset = offset,
                      !.write_space = PhySpaceCalc(offset, Len(src)),
                      !.src = src, !.before = dev]

\* write_head_partial_blk, write_tail_partial_blk: the future in its Init state
write_partial_blk(f, blk_id, src) ==
    [f EXCEPT !.fut = TRUE, !.part = "Init", !.part_src = src, !.blk_id = blk_id,
              !.blk_data = [i \in 1 .. DiskBlkSize |-> 0]]

\* the copy of WritePartialBlkFut::poll after the block was read: the head
\* variant fills blk_data[..src.len()], the tail variant
\* blk_data[blk_data_len - src.len()..]
PartialBlkCopy(head_or_tail, blk_data, src) ==
    IF head_or_tail THEN BufPut(blk_data, 0, src)
    ELSE BufPut(blk_data, Len(blk_data) - Len(src), src)

WriteAtOut(f, dev, res, n) == [f |-> f, dev |-> dev, res |-> res, n |-> n]

\* WritePartialBlkFut::poll: [f, dev, ready, res] with res "Pending" or "Ready";
\* the read and the write of the block are one device future each
RECURSIVE WritePartialBlkPoll(_, _, _, _)
WritePartialBlkPoll(head_or_tail, f, dev, ready) ==
    CASE f.part = "Init" ->
           WritePartialBlkPoll(head_or_tail, [f EXCEPT !.part = "ReadBlk"], dev, ready)
      [] f.part = "ReadBlk" ->
           IF ready = 0 THEN [f |-> f, dev |-> dev, ready |-> 0, res |-> "Pending"]
           ELSE IF Len(f.part_src) > DiskBlkSize
           THEN [f |-> f, dev |-> dev, ready |-> ready, res |-> "Panic"]
           ELSE WritePartialBlkPoll(
                    head_or_tail,
                    [f EXCEPT !.part = "WriteBlk",
                              !.blk_data = PartialBlkCopy(head_or_tail, BlkOf(dev, f.blk_id),
                                                          f.part_src)],
                    dev, ready - 1)
      [] OTHER ->
           IF ready = 0 THEN [f |-> f, dev |-> dev, ready |-> 0, res |-> "Pending"]
           ELSE [f |-> f, dev |-> BlkPut(dev, f.blk_id, f.blk_data), ready |-> ready - 1,
                 res |-> "Ready"]

\* the loop of WriteAtFut::poll; ready is the number of device futures that
\* complete in this poll, the one polled after them returns Pending
RECURSIVE WriteAtLoop(_, _, _)
WriteAtLoop(f, dev, ready) ==
    LET sp == f.write_space
    IN
    CASE f.state = "HeadPartialBlk" ->
           IF ~f.fut
           THEN IF ~has_partial_head_blk(sp)
                THEN WriteAtLoop([f EXCEPT !.state = "FullBlks", !.blk_id = sp.start_blk_id],
                                 dev, ready)
                ELSE IF sp.start_blk_id = sp.end_blk_id
                THEN \* pos_of_tail_partial_blk.unwrap(), then the slice of src
                     IF \/ ~has_partial_tail_blk(sp)
                        \/ sp.pos_of_tail_partial_blk < sp.pos_of_head_partial_blk
                        \/ sp.pos_of_tail_partial_blk - sp.pos_of_head_partial_blk > Len(f.src)
                     THEN WriteAtOut(f, dev, "Panic", 0)
                     ELSE WriteAtLoop(
                              write_partial_blk(
                                  f, sp.start_blk_id,
                                  SubSeq(f.src, 1, sp.pos_of_tail_partial_blk
                                                       - sp.pos_of_head_partial_blk)),
                              dev, ready)
                ELSE IF DiskBlkSize - sp.pos_of_head_partial_blk > Len(f.src)
                THEN WriteAtOut(f, dev, "Panic", 0)
                ELSE WriteAtLoop(
                         write_partial_blk(
                             f, sp.start_blk_id,
                             SubSeq(f.src, 1, DiskBlkSize - sp.pos_of_head_partial_blk)),
                         dev, ready)
           ELSE LET p == WritePartialBlkPoll(TRUE, f, dev, ready)
                IN  IF p.res # "Ready" THEN WriteAtOut(p.f, p.dev, p.res, 0)
                    ELSE IF sp.start_blk_id = sp.end_blk_id
                    THEN WriteAtOut(p.f, p.dev, "Ready", Len(p.f.part_src))
                    ELSE WriteAtLoop([p.f EXCEPT !.written_size = @ + Len(p.f.part_src),
                                                 !.state = "FullBlks",
                                                 !.blk_id = sp.start_blk_id + 1,
                                                 !.fut = FALSE],
                                     p.dev, p.ready)
      [] f.state = "TailPartialBlk" ->
           IF ~f.fut
           THEN IF ~has_partial_tail_blk(sp) THEN WriteAtOut(f, dev, "Ready", f.written_size)
                ELSE IF f.written_size > Len(f.src) THEN WriteAtOut(f, dev, "Panic", 0)
                ELSE WriteAtLoop(
                         write_partial_blk(f, sp.end_blk_id,
                                           SubSeq(f.src, f.written_size + 1, Len(f.src))),
                         dev, ready)
           ELSE LET p == WritePartialBlkPoll(FALSE, f, dev, ready)
                IN  IF p.res # "Ready" THEN WriteAtOut(p.f, p.dev, p.res, 0)
                    ELSE WriteAtOut([p.f EXCEPT !.written_size = @ + Len(p.f.part_src)],
                                    p.dev, "Ready", f.written_size + Len(p.f.part_src))
      [] OTHER ->
           IF ~f.fut
           THEN IF f.blk_id > last_full_blk(sp)
                THEN WriteAtLoop([f EXCEPT !.state = "TailPartialBlk"], dev, ready)
                ELSE IF f.written_size + DiskBlkSize > Len(f.src)
                THEN WriteAtOut(f, dev, "Panic", 0)
                ELSE WriteAtLoop([f EXCEPT !.fut = TRUE], dev, ready)
           ELSE IF ready = 0 THEN WriteAtOut(f, dev, "Pending", 0)
           ELSE WriteAtLoop([f EXCEPT !.written_size = @ + DiskBlkSize,
                                      !.blk_id = @ + 1,
                                      !.fut = FALSE],
                            BlkPut(dev, f.blk_id,
                                   SubSeq(f.src, f.written_size + 1,
                                          f.written_size + DiskBlkSize)),
                            ready - 1)

\* WriteAtFut::poll
WriteAtPoll(f, dev, ready) ==
    IF f.write_space.none THEN WriteAtOut(f, dev, "Ready", 0)
    ELSE WriteAtLoop(f, dev, ready)

WrIdle ==
    /\ dsk_wfut = NoWriteAt
    /\ dsk_writes = 0

\* disk.write_at(offset, src) with len bytes that the device does not hold:
\* the future is made
DiskWriteAt(offset, len) ==
    /\ dsk_state = "ok"
    /\ ~dsk_wfut.live /\ ~dsk_fut.live
    /\ dsk_writes < MaxDiskWrites
    /\ dsk_writes' = dsk_writes + 1
    /\ dsk_wfut' = DiskWriteAtFut(offset, [i \in 1 .. len |-> 100 * dsk_writes' + i], dsk_blks)
    /\ dsk_ret' = [op |-> "none"]
    /\ UNCHANGED <<dsk_blks, dsk_fut, dsk_state, exceptDskWr>>

\* the future is polled
DiskWritePoll(ready) ==
    /\ dsk_state = "ok"
    /\ dsk_wfut.live
    /\ LET r == WriteAtPoll(dsk_wfut, dsk_blks, ready)
       IN  /\ dsk_wfut' = IF r.res = "Pending" THEN r.f ELSE NoWriteAt
           /\ dsk_blks' = r.dev
           /\ dsk_state' = IF r.res = "Panic" THEN "panic" ELSE "ok"
           /\ dsk_ret' = IF r.res = "Pending" THEN [op |-> "pending"]
                         ELSE [op |-> "write_at", res |-> r.res, offset |-> r.f.offset,
                               n |-> r.n, src |-> r.f.src, before |-> r.f.before]
    /\ UNCHANGED <<dsk_fut, dsk_writes, exceptDskWr>>

NextDskWr ==
    \/ \E offset \in 0 .. DiskCap, len \in 1 .. MaxBufLen : DiskWriteAt(offset, len)
    \/ \E ready \in 0 .. (2 * DiskBlkCount) : DiskWritePoll(ready)

\* C36: when write_at(offset, src) has returned n, the device bytes
\* offset .. offset + n are the first n bytes of src and every other byte of
\* the device, the rest of a partly written head or tail block included, is
\* what it was before the call
C36_WriteAtChangesOnlyItsRange ==
    (dsk_ret.op = "write_at" /\ dsk_ret.res = "Ready") =>
        \A i \in 0 .. (DiskCap - 1) :
            dsk_blks[i] = IF dsk_ret.offset <= i /\ i < dsk_ret.offset + dsk_ret.n
                          THEN dsk_ret.src[i - dsk_ret.offset + 1]
                          ELSE dsk_ret.before[i]

(***************************************************************************)
(* src/proc/process.rs: OpenFileInner, the file descriptor table of a      *)
(* process.  A slot of files holds TRUE for Some(descriptor).              *)
(***************************************************************************)

\* config::PROC_MAX_OPEN_FILES, 65536 in the source
PROC_MAX_OPEN_FILES == 4

\* files.iter().skip(n).position(Option::is_none).unwrap_or(files.len()):
\* position counts from the first element that was not skipped
SkipPositionNone(files, n) ==
    LET nones == {i \in n .. (Len(files) - 1) : ~files[i + 1]}
    IN  IF nones = {} THEN Len(files) ELSE SetMin(nones) - n

\* files.resize(n, None)
FilesResize(files, n) == [i \in 1 .. n |-> IF i <= Len(files) THEN files[i] ELSE FALSE]

\* the slot of insert_file was empty: it is filled, next_fd and max_fd follow
InsertFilled(t, fd_num, files) ==
    [files |-> files,
     next_fd |-> IF fd_num = t.next_fd THEN SkipPositionNone(files, t.next_fd + 1)
                 ELSE t.next_fd,
     max_fd |-> IF fd_num > t.max_fd THEN fd_num ELSE t.max_fd]

\* OpenFileInner::insert_file: [t, ret], ret = -1 for None
insert_file(t, fd_num) ==
    LET files == IF fd_num >= Len(t.files) THEN FilesResize(t.files, fd_num + 1) ELSE t.files
    IN  IF fd_num >= PROC_MAX_OPEN_FILES THEN [t |-> t, ret |-> 0 - 1]
        ELSE IF files[fd_num + 1] THEN [t |-> [t EXCEPT !.files = files], ret |-> 0 - 1]
        ELSE [t |-> InsertFilled(t, fd_num, [files EXCEPT ![fd_num + 1] = TRUE]),
              ret |-> fd_num]

\* OpenFileInner::add_file
add_file(t) == insert_file(t, t.next_fd)

\* OpenFileInner::add_file_min
add_file_min(t, min) ==
    insert_file(t, IF min <= t.next_fd THEN t.next_fd ELSE SkipPositionNone(t.files, min))

SetMax(s) == CHOOSE x \in s : \A y \in s : x >= y

\* files.iter().rposition(Option::is_some).unwrap_or(0)
RPositionSome(files) ==
    LET somes == {i \in 0 .. (Len(files) - 1) : files[i + 1]}
    IN  IF somes = {} THEN 0 ELSE SetMax(somes)

\* the removed descriptor was the highest one: files is truncated
RemoveShrink(t, fd_num, files) ==
    IF fd_num = t.max_fd
    THEN [t EXCEPT !.files = SubSeq(files, 1, Min(Len(files), RPositionSome(files) + 1)),
                   !.max_fd = RPositionSome(files)]
    ELSE [t EXCEPT !.files = files]

\* OpenFileInner::remove_file: [t, ret], ret tells whether a descriptor was removed
remove_file(t, fd_num) ==
    IF fd_num >= Len(t.files) \/ ~t.files[fd_num + 1] THEN [t |-> t, ret |-> FALSE]
    ELSE [t |-> [RemoveShrink(t, fd_num, [t.files EXCEPT ![fd_num + 1] = FALSE])
                    EXCEPT !.next_fd = IF fd_num < @ THEN fd_num ELSE @],
          ret |-> TRUE]

\* OpenFiles::new
FdIdle ==
    /\ fd_tbl = [max_fd |-> 0, next_fd |-> 0, files |-> <<>>]
    /\ fd_ret = [op |-> "none"]

\* the descriptors that are open
OpenFds(t) == {i \in 0 .. (Len(t.files) - 1) : t.files[i + 1]}

\* the lowest descriptor number that is not open
LowestFreeFd(t) == SetMin((0 .. Len(t.files)) \ OpenFds(t))

FdAddFile ==
    /\ fd_tbl' = add_file(fd_tbl).t
    /\ fd_ret' = [op |-> "add_file", fd |-> add_file(fd_tbl).ret, arg |-> fd_tbl.next_fd,
                  open |-> OpenFds(fd_tbl)]
    /\ UNCHANGED exceptFd

FdAddFileMin(min) ==
    /\ fd_tbl' = add_file_min(fd_tbl, min).t
    /\ fd_ret' = [op |-> "add_file_min", fd |-> add_file_min(fd_tbl, min).ret, arg |-> min,
                  open |-> OpenFds(fd_tbl)]
    /\ UNCHANGED exceptFd

FdInsertFile(fd_num) ==
    /\ fd_tbl' = insert_file(fd_tbl, fd_num).t
    /\ fd_ret' = [op |-> "insert_file", fd |-> insert_file(fd_tbl, fd_num).ret, arg |-> fd_num,
                  open |-> OpenFds(fd_tbl)]
    /\ UNCHANGED exceptFd

FdRemoveFile(fd_num) ==
    /\ fd_tbl' = remove_file(fd_tbl, fd_num).t
    /\ fd_ret' = [op |-> "remove_file", fd |-> IF remove_file(fd_tbl, fd_num).ret THEN fd_num
                                               ELSE 0 - 1,
                  arg |-> fd_num, open |-> OpenFds(fd_tbl)]
    /\ UNCHANGED exceptFd

NextFd ==
    \/ FdAddFile
    \/ \E min \in 0 .. PROC_MAX_OPEN_FILES : FdAddFileMin(min)
    \/ \E fd_num \in 0 .. PROC_MAX_OPEN_FILES : FdInsertFile(fd_num)
    \/ \E fd_num \in 0 .. PROC_MAX_OPEN_FILES : FdRemoveFile(fd_num)

\* C38: after any sequence of add_file, add_file_min, insert_file and
\* remove_file, next_fd is the lowest descriptor number that is not open; so
\* add_file never targets an open descriptor, and it succeeds whenever a
\* descriptor below PROC_MAX_OPEN_FILES is free
C38_NextFdIsLowestFree ==
    /\ fd_tbl.next_fd = LowestFreeFd(fd_tbl)
    /\ fd_ret.op = "add_file" =>
          /\ fd_ret.arg \notin fd_ret.open
          /\ (0 .. (PROC_MAX_OPEN_FILES - 1)) \ fd_ret.open # {} => fd_ret.fd >= 0

(***************************************************************************)
Init ==
    AllocIdle /\ DirIdle /\ ExecIdle /\ MemIdle /\ SigIdle /\ MdIdle /\ BmIdle /\ InoIdle
    /\ ThrIdle /\ SlIdle /\ SegIdle /\ CpuIdle /\ DskIdle /\ BumpIdle /\ WrIdle /\ FdIdle

SpecAlloc == Init /\ [][NextAlloc]_vars

SpecDir == Init /\ [][NextDir]_vars

SpecExec == Init /\ [][NextExec]_vars

SpecExecFair == SpecExec /\ FairExec

SpecMem == Init /\ [][NextMem]_vars

SpecCow == Init /\ [][NextCow]_vars

SpecCowParent == Init /\ [][NextCowParent]_vars

SpecSig == Init /\ [][NextSig]_vars

SpecMd == Init /\ [][NextMd]_vars

SpecBm == Init /\ [][NextBm]_vars

SpecIno == Init /\ [][NextIno]_vars

SpecThr == Init /\ [][NextThr]_vars

SpecSl == Init /\ [][NextSl]_vars

SpecSeg == Init /\ [][NextSeg]_vars

SpecCpu == Init /\ [][NextCpu]_vars

SpecDsk == Init /\ [][NextDsk]_vars

SpecBump == Init /\ [][NextBump]_vars

SpecDskWr == Init /\ [][NextDskWr]_vars

SpecFd == Init /\ [][NextFd]_vars

====
